---- MODULE Spec2Model ----
(***************************************************************************)
(* Door extraction pipeline of the blueprint engine:                       *)
(*   backend/app/services/door_geometry_extraction.py                      *)
(*   backend/app/services/door_label_detection.py                          *)
(*                                                                         *)
(* Conventions of the model                                                *)
(*   - a text is a tuple of one-character strings; None is the empty tuple *)
(*   - an optional float is a pair <<num, den>> standing for num/den;      *)
(*     None is <<0, 0>>                                                    *)
(*   - input confidences are in hundredths; a DoorExtraction confidence is *)
(*     in thousandths (0.7 * 0.85 = 595)                                   *)
(*   - objects are referred to by their index in the list that holds them; *)
(*     0 is None                                                           *)
(*   - Euclidean distances are compared through four times their square,   *)
(*     computed on doubled coordinates, so that bbox centers stay integral *)
(***************************************************************************)
EXTENDS Integers, Sequences, FiniteSets, TLC

VARIABLES
    labels,                 \* the DoorLabel objects of the call, in list order (mutable)
    labels0,                \* the labels as they were handed to the call
    geometries,             \* the DoorGeometry objects of the call, in list order
    max_distance_px,        \* search radius of the association
    scale_context,          \* Optional[ScaleContext]
    min_confidence,         \* confidence threshold of the page pipeline (thousandths)
    doors,                  \* the DoorExtraction list being built
    candidates,             \* the page's records once their attributes are derived
    final_doors,            \* the door list the page pipeline returns
    matched_geometry_ids,   \* geometry ids already claimed
    matched_label_indices,  \* indices of labels that claimed a geometry
    i,                      \* position of the running loop over labels
    pc,                     \* position in the pipeline
    args,                   \* arguments of a direct call of one function
    result                  \* <<value>> once that call has returned

vars == <<labels, labels0, geometries, max_distance_px, scale_context, min_confidence,
          doors, candidates, final_doors, matched_geometry_ids, matched_label_indices,
          i, pc, args, result>>

\* what a call is given and never assigns
inputs == <<labels0, geometries, max_distance_px, scale_context, min_confidence>>

\* the direct call of a single function, untouched by the door pipeline
call == <<args, result>>

(***************************************************************************)
(* Bounds of the model                                                     *)
(***************************************************************************)
MaxLabels == 3
MaxGeoms == 2
MaxPageLabels == 2

(***************************************************************************)
(* Values                                                                  *)
(***************************************************************************)
NoText == <<>>
NoFloat == <<0, 0>>
NoRating == "None"

Truthy(f) == f[2] # 0 /\ f[1] # 0
IsSet(f) == f[2] # 0
FloatEq(a, b) == /\ IsSet(a) = IsSet(b)
                 /\ IsSet(a) => a[1] * b[2] = b[1] * a[2]

Digits == {"0", "1", "2", "3", "4", "5", "6", "7", "8", "9"}
Letters == {"A", "B", "T"}

AllDigits(s, a, b) == \A k \in a..b : s[k] \in Digits

\* end positions e of a match of  \.\d{2}\.\d+\.\d{3}  that starts at position p
NumberBodyEnds(s, p) ==
    { e \in 1..Len(s) :
        \E n \in 1..Len(s) :
            /\ e = p + 7 + n
            /\ s[p] = "."
            /\ AllDigits(s, p + 1, p + 2)
            /\ s[p + 3] = "."
            /\ AllDigits(s, p + 4, p + 3 + n)
            /\ s[p + 4 + n] = "."
            /\ AllDigits(s, p + 5 + n, p + 7 + n) }

\* (-\d+) directly after position e
HasDashNumberAfter(s, e) == e + 2 <= Len(s) /\ s[e + 1] = "-" /\ s[e + 2] \in Digits

\* re.compile(r'B\.\d{2}\.\d+\.\d{3}-\d+').match(s)
DoorNumberWithSuffixMatch(s) ==
    /\ Len(s) >= 1
    /\ s[1] = "B"
    /\ \E e \in NumberBodyEnds(s, 2) : HasDashNumberAfter(s, e)

\* re.compile(r'B\.\d{2}\.\d+\.\d{3}(?:-\d+)?').search(s)
DoorNumberPatternSearch(s) ==
    \E p \in 1..Len(s) : s[p] = "B" /\ NumberBodyEnds(s, p + 1) # {}


(***************************************************************************)
(* Records                                                                 *)
(***************************************************************************)
\* DoorLabel (door_label_detection.py)
Label(text, bbox, conf, ptype, w, h, fr) ==
    [label_text |-> text, bbox |-> bbox, confidence |-> conf, pattern_type |-> ptype,
     width_m |-> w, height_m |-> h, door_type |-> "None", fire_rating |-> fr]

\* DoorGeometry
Geometry(id, center, w, h, conf, kind) ==
    [geometry_id |-> id, center |-> center, width_px |-> w, height_px |-> h,
     confidence |-> conf, opening_type |-> kind]

\* DoorExtraction as its constructor leaves it: every attribute not given is None
DoorExtraction(id, l, g, method, conf, warn) ==
    [extraction_id |-> id, label |-> l, geometry |-> g,
     extraction_method |-> method, confidence |-> conf, warnings |-> warn,
     assumptions |-> <<>>, width_m |-> NoFloat, height_m |-> NoFloat,
     door_type |-> "None", door_number |-> NoText, fire_rating |-> NoRating]

(***************************************************************************)
(* associate_labels_with_geometries                                        *)
(***************************************************************************)
\* sorted(geometries, key=confidence, reverse=True): a stable sort, as a list of
\* indices into geometries
RECURSIVE InsertByConfidence(_, _, _)
InsertByConfidence(gs, sorted, k) ==
    IF sorted = <<>> THEN <<k>>
    ELSE IF gs[Head(sorted)].confidence >= gs[k].confidence
         THEN <<Head(sorted)>> \o InsertByConfidence(gs, Tail(sorted), k)
         ELSE <<k>> \o sorted

RECURSIVE SortedUpTo(_, _)
SortedUpTo(gs, n) ==
    IF n = 0 THEN <<>> ELSE InsertByConfidence(gs, SortedUpTo(gs, n - 1), n)

GeometriesSorted(gs) == SortedUpTo(gs, Len(gs))

\* twice the bbox center
Center2(bbox) == <<bbox[1] + bbox[3], bbox[2] + bbox[4]>>

\* four times the squared distance between a label's bbox center and a point
Dist4(bbox, point) ==
    LET c == Center2(bbox)
        dx == 2 * point[1] - c[1]
        dy == 2 * point[2] - c[2]
    IN dx * dx + dy * dy

\* four times the squared distance between two bbox centers
LabelDist4(b1, b2) ==
    LET c1 == Center2(b1)
        c2 == Center2(b2)
    IN (c1[1] - c2[1]) * (c1[1] - c2[1]) + (c1[2] - c2[2]) * (c1[2] - c2[2])

Radius4(r) == 4 * r * r

\* the comparison that lets a geometry replace the nearest one found so far
Closer(d, nearest, nearest_distance) == nearest = 0 \/ d < nearest_distance

InRadiusStrict(d, radius) == d < Radius4(radius)

\* the distance test against the search radius
InRadius(d, radius) == d <= Radius4(radius)

AlreadyMatchedNever(g, matched) == FALSE

\* "if geometry.geometry_id in matched_geometry_ids: continue"
AlreadyMatched(g, matched) == g.geometry_id \in matched

\* the inner loop over geometries_sorted: <<nearest_geometry, nearest_distance>>
RECURSIVE ScanGeometries(_, _, _, _, _, _, _)
ScanGeometries(gs, order, k, bbox, matched, radius, best) ==
    IF k > Len(order) THEN best
    ELSE LET g == order[k]
             d == Dist4(bbox, gs[g].center)
         IN IF AlreadyMatched(gs[g], matched)
            THEN ScanGeometries(gs, order, k + 1, bbox, matched, radius, best)
            ELSE IF Closer(d, best[1], best[2]) /\ InRadius(d, radius)
                 THEN ScanGeometries(gs, order, k + 1, bbox, matched, radius, <<g, d>>)
                 ELSE ScanGeometries(gs, order, k + 1, bbox, matched, radius, best)

NearestGeometry(gs, bbox, matched, radius) ==
    ScanGeometries(gs, GeometriesSorted(gs), 1, bbox, matched, radius, <<0, 0>>)[1]

Min(a, b) == IF a <= b THEN a ELSE b

MatchConfidence(l, g) == 10 * Min(l.confidence, g.confidence)
GeometryOnlyConfidence(g) == 7 * g.confidence
LabelOnlyConfidenceAsGeometry(l) == 7 * l.confidence

LabelOnlyConfidence(l) == 8 * l.confidence

\* one pass of the first loop: label i looks for its geometry
MatchLabel ==
    /\ pc = "match"
    /\ i <= Len(labels)
    /\ LET g == NearestGeometry(geometries, labels[i].bbox, matched_geometry_ids,
                                max_distance_px)
       IN IF g # 0
          THEN /\ doors' = Append(doors,
                      DoorExtraction(Len(doors) + 1, i, g, "label_geometry_match",
                                     MatchConfidence(labels[i], geometries[g]), <<>>))
               /\ matched_geometry_ids' =
                      matched_geometry_ids \cup {geometries[g].geometry_id}
               /\ matched_label_indices' = matched_label_indices \cup {i}
          ELSE UNCHANGED <<doors, matched_geometry_ids, matched_label_indices>>
    /\ i' = i + 1
    /\ UNCHANGED <<call, inputs, labels, candidates, final_doors, pc>>

\* the second loop: the records of the geometries nobody claimed, in sorted order
RECURSIVE GeometryOnlyDoors(_, _, _, _, _)
GeometryOnlyDoors(gs, order, k, matched, acc) ==
    IF k > Len(order) THEN acc
    ELSE IF ~AlreadyMatched(gs[order[k]], matched)
         THEN GeometryOnlyDoors(gs, order, k + 1, matched,
                  Append(acc, DoorExtraction(Len(acc) + 1, 0, order[k], "geometry_only",
                                  GeometryOnlyConfidence(gs[order[k]]),
                                  <<"No label found near this door geometry">>)))
         ELSE GeometryOnlyDoors(gs, order, k + 1, matched, acc)

GeometryOnly ==
    /\ pc = "match"
    /\ i > Len(labels)
    /\ doors' = GeometryOnlyDoors(geometries, GeometriesSorted(geometries), 1,
                                  matched_geometry_ids, doors)
    /\ pc' = "label_only"
    /\ i' = 1
    /\ UNCHANGED <<call, inputs, labels, candidates, final_doors, matched_geometry_ids,
                   matched_label_indices>>

FireRadius == 100

\* the distance test of the fire-rating search
NearFire(d) == d < Radius4(FireRadius)

\* the search for a nearby fire rating: the loop over all labels, left at the
\* first fire_rating label that is near enough
RECURSIVE NearbyFireRating(_, _, _)
NearbyFireRating(ls, bbox, k) ==
    IF k > Len(ls) THEN NoRating
    ELSE IF ls[k].pattern_type = "fire_rating" /\ NearFire(LabelDist4(bbox, ls[k].bbox))
         THEN ls[k].fire_rating
         ELSE NearbyFireRating(ls, bbox, k + 1)

CarriesAnything(l) == TRUE

\* the test that lets an unmatched label become a door
CarriesDoorNumber(l) ==
    l.pattern_type = "room_door" \/ DoorNumberPatternSearch(l.label_text)

\* the label after "Update label with fire rating if found"
Backfilled(l, fire_rating) ==
    IF fire_rating # NoRating /\ l.fire_rating = NoRating
    THEN [l EXCEPT !.fire_rating = fire_rating]
    ELSE l

\* one pass of the third loop
LabelOnly ==
    /\ pc = "label_only"
    /\ i <= Len(labels)
    /\ IF i \notin matched_label_indices /\ CarriesDoorNumber(labels[i])
       THEN /\ labels' = [labels EXCEPT ![i] =
                    Backfilled(labels[i], NearbyFireRating(labels, labels[i].bbox, 1))]
            /\ doors' = Append(doors,
                    DoorExtraction(Len(doors) + 1, i, 0, "label_only",
                                   LabelOnlyConfidence(labels[i]),
                                   <<"Door label found but no geometry detected nearby">>))
       ELSE UNCHANGED <<labels, doors>>
    /\ i' = i + 1
    /\ UNCHANGED <<call, inputs, candidates, final_doors, matched_geometry_ids,
                   matched_label_indices, pc>>

\* associate_labels_with_geometries has returned doors
Returned == pc = "label_only" /\ i > Len(labels)


(***************************************************************************)
(* extract_door_attributes                                                 *)
(***************************************************************************)
NoScale == [present |-> FALSE, pixels_per_meter |-> NoFloat]
Scale(ppm) == [present |-> TRUE, pixels_per_meter |-> ppm]

\* a pixel length (optional float) over pixels_per_meter
Over(px, ppm) == <<px[1] * ppm[2], px[2] * ppm[1]>>

\* "if extraction.label and extraction.label.width_m"
UsesLabelDimension(d, ls) == d.label # 0 /\ Truthy(ls[d.label].width_m)

\* "elif extraction.geometry and scale_context and scale_context.pixels_per_meter"
UsesGeometryDimension(d, scale) ==
    d.geometry # 0 /\ scale.present /\ Truthy(scale.pixels_per_meter)

WithDimensions(d, ls, gs, scale) ==
    IF UsesLabelDimension(d, ls)
    THEN [d EXCEPT !.width_m = ls[d.label].width_m,
                   !.height_m = ls[d.label].height_m,
                   !.assumptions = Append(@, "Width/height from label text")]
    ELSE IF UsesGeometryDimension(d, scale)
         THEN [d EXCEPT !.width_m = Over(<<gs[d.geometry].width_px, 1>>,
                                         scale.pixels_per_meter),
                        !.height_m = IF Truthy(gs[d.geometry].height_px)
                                     THEN Over(gs[d.geometry].height_px,
                                               scale.pixels_per_meter)
                                     ELSE @,
                        !.assumptions = Append(@, "Width calculated from geometry")]
         ELSE d

\* door type, fire rating and door number, each copied from the label
WithLabelAttributes(d, ls) ==
    IF d.label = 0 THEN d
    ELSE [d EXCEPT !.door_type = IF ls[d.label].door_type # "None"
                                 THEN ls[d.label].door_type ELSE @,
                   !.fire_rating = IF ls[d.label].fire_rating # NoRating
                                   THEN ls[d.label].fire_rating ELSE @,
                   !.door_number = ls[d.label].label_text]

extract_door_attributes(d, ls, gs, scale) ==
    WithLabelAttributes(WithDimensions(d, ls, gs, scale), ls)

(***************************************************************************)
(* _extract_doors_from_page, stage 4 to the end                            *)
(***************************************************************************)
\* Stage 4: the loop over the doors that the association returned
ExtractAttributes ==
    /\ Returned
    /\ doors' = [k \in 1..Len(doors) |->
                    extract_door_attributes(doors[k], labels, geometries, scale_context)]
    /\ candidates' = doors'
    /\ pc' = "filter"
    /\ UNCHANGED <<call, inputs, labels, final_doors, matched_geometry_ids,
                   matched_label_indices, i>>

PassesConfidence(d, threshold) == d.confidence >= threshold

\* "Filter by minimum confidence"
FilterConfidence ==
    /\ pc = "filter"
    /\ doors' = SelectSeq(doors, LAMBDA d : PassesConfidence(d, min_confidence))
    /\ pc' = "dedup"
    /\ UNCHANGED <<call, inputs, labels, candidates, final_doors, matched_geometry_ids,
                   matched_label_indices, i>>

\* the key of a record without door number: its extraction_id
IdKey(d) == <<"door_", ToString(d.extraction_id)>>

\* position of key in the dict (a list of <<key, door>> in insertion order), or 0
KeyIndex(dict, key) ==
    IF \E k \in 1..Len(dict) : dict[k][1] = key
    THEN CHOOSE k \in 1..Len(dict) : dict[k][1] = key
    ELSE 0

\* unique_doors[key] = d
Put(dict, key, d) ==
    IF KeyIndex(dict, key) = 0 THEN Append(dict, <<key, d>>)
    ELSE [dict EXCEPT ![KeyIndex(dict, key)] = <<key, d>>]

ReplacesAlways(dict, d) == TRUE

\* "door_num not in unique_doors or door.confidence > unique_doors[door_num].confidence"
Replaces(dict, d) ==
    \/ KeyIndex(dict, d.door_number) = 0
    \/ d.confidence > dict[KeyIndex(dict, d.door_number)][2].confidence

\* the body of the loop that fills unique_doors
Keep(dict, d) ==
    IF d.door_number # NoText
    THEN IF DoorNumberWithSuffixMatch(d.door_number)
         THEN IF Replaces(dict, d) THEN Put(dict, d.door_number, d) ELSE dict
         ELSE dict
    ELSE Put(dict, IdKey(d), d)

RECURSIVE UniqueDoors(_, _, _)
UniqueDoors(ds, k, dict) ==
    IF k > Len(ds) THEN dict ELSE UniqueDoors(ds, k + 1, Keep(dict, ds[k]))

\* list(unique_doors.values())
Values(dict) == [k \in 1..Len(dict) |-> dict[k][2]]

\* the suffix rule and the deduplication
Deduplicate ==
    /\ pc = "dedup"
    /\ final_doors' = Values(UniqueDoors(doors, 1, <<>>))
    /\ pc' = "done"
    /\ UNCHANGED <<call, inputs, labels, doors, candidates, matched_geometry_ids,
                   matched_label_indices, i>>

(***************************************************************************)
(* Inputs                                                                  *)
(***************************************************************************)
SeqsUpTo(S, n) == UNION {[1..k -> S] : k \in 0..n}

BoxA == <<0, 0, 20, 10>>        \* center (10, 5)
BoxB == <<60, 0, 80, 10>>       \* center (70, 5)
BoxC == <<100, 0, 120, 10>>     \* center (110, 5)

TextB1 == <<"B", ".", "0", "0", ".", "1", ".", "0", "0", "3", "-", "1">>
TextB == <<"B", ".", "0", "0", ".", "1", ".", "0", "0", "3">>
TextA1 == <<"A", ".", "0", "0", ".", "1", ".", "0", "0", "3", "-", "1">>
TextT30 == <<"T", "3", "0">>
TextT90 == <<"T", "9", "0">>
TextDim == <<"0", ",", "9", "0", " ", "x", " ", "2", ",", "1", "0">>
TextDim0 == <<"0", ",", "0", "0", " ", "x", " ", "2", ",", "1", "0">>
TextB1Dim == TextB1 \o <<" ">> \o TextDim

\* labels handed to a direct call of associate_labels_with_geometries
AssocLabels ==
    { Label(TextB1, BoxB, 75, "room_door", NoFloat, NoFloat, NoRating),
      Label(TextB, BoxA, 75, "room_door", NoFloat, NoFloat, NoRating),
      Label(TextT30, BoxA, 95, "fire_rating", NoFloat, NoFloat, "T30"),
      Label(TextT90, BoxC, 95, "fire_rating", NoFloat, NoFloat, "T90"),
      Label(TextB1Dim, BoxC, 95, "dimension+room_door", <<90, 100>>, <<210, 100>>,
            NoRating) }

\* geometries as the detectors emit them, before they get their ids
GeometryShapes ==
    { [center |-> <<10, 5>>, width_px |-> 50, height_px |-> NoFloat,
       confidence |-> 85, opening_type |-> "arc"],
      [center |-> <<10, 5>>, width_px |-> 45, height_px |-> <<100, 1>>,
       confidence |-> 60, opening_type |-> "rectangle"],
      [center |-> <<160, 5>>, width_px |-> 45, height_px |-> <<100, 1>>,
       confidence |-> 60, opening_type |-> "rectangle"],
      [center |-> <<110, 55>>, width_px |-> 50, height_px |-> NoFloat,
       confidence |-> 85, opening_type |-> "arc"] }

\* the detectors give every geometry an id of its own
WithIds(shapes) ==
    [k \in 1..Len(shapes) |->
        Geometry(k, shapes[k].center, shapes[k].width_px, shapes[k].height_px,
                 shapes[k].confidence, shapes[k].opening_type)]

Radii == {50, 150}

Start ==
    /\ labels = labels0
    /\ doors = <<>>
    /\ candidates = <<>>
    /\ final_doors = <<>>
    /\ matched_geometry_ids = {}
    /\ matched_label_indices = {}
    /\ i = 1
    /\ pc = "match"
    /\ args = <<>>
    /\ result = <<>>

\* a direct call of associate_labels_with_geometries
InitAssoc ==
    /\ labels0 \in SeqsUpTo(AssocLabels, MaxLabels)
    /\ \E shapes \in SeqsUpTo(GeometryShapes, MaxGeoms) : geometries = WithIds(shapes)
    /\ max_distance_px \in Radii
    /\ scale_context = NoScale
    /\ min_confidence = 0
    /\ Start

NextAssoc == MatchLabel \/ GeometryOnly \/ LabelOnly

SpecAssoc == InitAssoc /\ [][NextAssoc]_vars


\* labels as detect_door_labels emits them (_apply_patterns_to_text)
PageLabels ==
    { Label(TextB1, BoxA, 75, "room_door", NoFloat, NoFloat, NoRating),
      Label(TextB1, BoxC, 75, "room_door", NoFloat, NoFloat, NoRating),
      Label(TextB, BoxA, 75, "room_door", NoFloat, NoFloat, NoRating),
      Label(TextA1, BoxB, 75, "room_door", NoFloat, NoFloat, NoRating),
      Label(TextT30, BoxA, 95, "fire_rating", NoFloat, NoFloat, "T30"),
      Label(TextDim, BoxC, 95, "dimension", <<90, 100>>, <<210, 100>>, NoRating),
      Label(TextDim0, BoxC, 95, "dimension", <<0, 100>>, <<210, 100>>, NoRating) }

Scales == {NoScale, Scale(NoFloat), Scale(<<50, 1>>)}

Thresholds == {500, 700}

\* a call of _extract_doors_from_page, taken up after its two detection stages
InitPage ==
    /\ labels0 \in SeqsUpTo(PageLabels, MaxPageLabels)
    /\ \E shapes \in SeqsUpTo(GeometryShapes, MaxGeoms) : geometries = WithIds(shapes)
    /\ max_distance_px \in Radii
    /\ scale_context \in Scales
    /\ min_confidence \in Thresholds
    /\ Start

NextPage ==
    \/ MatchLabel
    \/ GeometryOnly
    \/ LabelOnly
    \/ ExtractAttributes
    \/ FilterConfidence
    \/ Deduplicate

SpecPage == InitPage /\ [][NextPage]_vars

(***************************************************************************)
(* Properties of associate_labels_with_geometries                          *)
(***************************************************************************)
LabelIds == 1..Len(labels)
GeometryIds == 1..Len(geometries)
DoorIds == 1..Len(doors)

RecordsOfGeometry(g) == {k \in DoorIds : doors[k].geometry = g}
RecordsOfLabel(l) == {k \in DoorIds : doors[k].label = l}

\* the labels the first loop has dealt with
Processed == IF pc = "match" THEN 1..(i - 1) ELSE LabelIds

\* C1: with pairwise distinct geometry ids, no geometry is ever in two records and
\* no label is ever in two records; once the call has returned every geometry is
\* the geometry of exactly one record, a label_geometry_match or a geometry_only
C1_EveryGeometryOnce ==
    /\ \A g \in GeometryIds : Cardinality(RecordsOfGeometry(g)) <= 1
    /\ \A l \in LabelIds : Cardinality(RecordsOfLabel(l)) <= 1
    /\ Returned =>
         \A g \in GeometryIds :
            /\ Cardinality(RecordsOfGeometry(g)) = 1
            /\ \A k \in RecordsOfGeometry(g) :
                  doors[k].extraction_method \in {"label_geometry_match", "geometry_only"}

C1_Witness ==
    /\ Returned
    /\ Len(labels) >= 2
    /\ Len(geometries) >= 2
    /\ \E k \in DoorIds : doors[k].extraction_method = "label_geometry_match"
    /\ \E k \in DoorIds : doors[k].extraction_method = "geometry_only"
    /\ \E l \in LabelIds : RecordsOfLabel(l) = {}

\* the geometries claimed by the labels in front of label l
ClaimedBefore(l) ==
    {doors[k].geometry : k \in {j \in DoorIds : doors[j].label \in 1..(l - 1)
                                              /\ doors[j].geometry # 0}}

\* the geometries label l could still claim when its turn came
Available(l) ==
    {g \in GeometryIds \ ClaimedBefore(l) :
        Dist4(labels[l].bbox, geometries[g].center)
            <= 4 * max_distance_px * max_distance_px}

MatchesOfLabel(l) == {k \in RecordsOfLabel(l) : doors[k].geometry # 0}

\* C2: labels claim in input order; a label claims nothing iff no unclaimed
\* geometry is within max_distance_px (the radius itself included), and what it
\* claims is a nearest unclaimed geometry in the radius, of the highest confidence
\* among the equidistant ones
C2_NearestUnclaimed ==
    \A l \in Processed :
        /\ (MatchesOfLabel(l) = {}) <=> (Available(l) = {})
        /\ \A k \in MatchesOfLabel(l) :
              /\ doors[k].geometry \in Available(l)
              /\ \A h \in Available(l) :
                    LET dg == Dist4(labels[l].bbox, geometries[doors[k].geometry].center)
                        dh == Dist4(labels[l].bbox, geometries[h].center)
                    IN /\ dg <= dh
                       /\ dg = dh => geometries[doors[k].geometry].confidence
                                        >= geometries[h].confidence

\* a label that had two equidistant geometries of different confidence to choose
\* from, a label that claimed a geometry exactly max_distance_px away, and a label
\* that found its nearest geometry taken
C2_Witness ==
    /\ Returned
    /\ \E l \in LabelIds : \E g, h \in Available(l) :
          /\ Dist4(labels[l].bbox, geometries[g].center)
                = Dist4(labels[l].bbox, geometries[h].center)
          /\ geometries[g].confidence > geometries[h].confidence
          /\ \E k \in MatchesOfLabel(l) : doors[k].geometry = g
    /\ \E l \in LabelIds : \E k \in MatchesOfLabel(l) :
          Dist4(labels[l].bbox, geometries[doors[k].geometry].center)
             = 4 * max_distance_px * max_distance_px
    /\ \E l \in LabelIds : ClaimedBefore(l) # {} /\ MatchesOfLabel(l) = {}

C4_InputLabelsUntouched == Returned => labels = labels0

\* the unclaimed fire-rating labels less than 100px from label l
FireCandidates(l) ==
    {m \in LabelIds :
        /\ labels0[m].pattern_type = "fire_rating"
        /\ m \notin matched_label_indices
        /\ LabelDist4(labels0[l].bbox, labels0[m].bbox) < 4 * 100 * 100}

NearestFireCandidates(l) ==
    {m \in FireCandidates(l) :
        \A n \in FireCandidates(l) :
            LabelDist4(labels0[l].bbox, labels0[m].bbox)
                <= LabelDist4(labels0[l].bbox, labels0[n].bbox)}

\* C5: the label of a label_only record that came without fire rating carries the
\* rating of the nearest unclaimed fire-rating label within 100px, and None when
\* there is no such label
C5_BackfillFromNearestUnclaimed ==
    Returned =>
        \A k \in DoorIds :
            (doors[k].extraction_method = "label_only"
                /\ labels0[doors[k].label].fire_rating = NoRating) =>
            IF FireCandidates(doors[k].label) = {}
            THEN labels[doors[k].label].fire_rating = NoRating
            ELSE \E m \in NearestFireCandidates(doors[k].label) :
                    labels[doors[k].label].fire_rating = labels0[m].fire_rating

LabelsNear(g) ==
    {l \in LabelIds :
        Dist4(labels[l].bbox, geometries[g].center)
            <= 4 * max_distance_px * max_distance_px}

\* C7: a single geometry with several labels in its radius goes to the label
\* closest to it, whatever the order of the labels
C7_ClosestLabelWins ==
    (Returned /\ Len(geometries) = 1 /\ Cardinality(LabelsNear(1)) >= 2) =>
        \E k \in RecordsOfGeometry(1) :
            /\ doors[k].label \in LabelsNear(1)
            /\ \A l \in LabelsNear(1) :
                  Dist4(labels[doors[k].label].bbox, geometries[1].center)
                     <= Dist4(labels[l].bbox, geometries[1].center)


(***************************************************************************)
(* Properties of _extract_doors_from_page and extract_door_attributes      *)
(***************************************************************************)
FinalIds == 1..Len(final_doors)
CandidateIds == 1..Len(candidates)

\* C8: in the final list a door number occurs once, on a record whose confidence
\* no candidate with that door number exceeds; a record without door number that
\* passed the confidence filter is in the final list
C8_OnePerDoorNumber ==
    pc = "done" =>
        /\ \A j, k \in FinalIds :
              (final_doors[j].door_number # NoText
                 /\ final_doors[j].door_number = final_doors[k].door_number) => j = k
        /\ \A k \in FinalIds : \A c \in CandidateIds :
              (final_doors[k].door_number # NoText
                 /\ candidates[c].door_number = final_doors[k].door_number)
              => final_doors[k].confidence >= candidates[c].confidence
        /\ \A c \in CandidateIds :
              (candidates[c].door_number = NoText
                 /\ candidates[c].confidence >= min_confidence)
              => \E k \in FinalIds : final_doors[k] = candidates[c]

\* two candidates with one door number and different confidences, both past the
\* confidence filter, and a geometry_only record next to them
C8_Witness ==
    /\ pc = "done"
    /\ \E b, c \in CandidateIds :
          /\ candidates[b].door_number = candidates[c].door_number
          /\ candidates[b].door_number # NoText
          /\ candidates[b].confidence < candidates[c].confidence
          /\ candidates[b].confidence >= min_confidence
          /\ \E k \in FinalIds : final_doors[k] = candidates[c]
    /\ \E k \in FinalIds : final_doors[k].extraction_method = "geometry_only"

\* the text ends in -N
EndsInInstanceSuffix(s) ==
    \E p \in 1..Len(s) : s[p] = "-" /\ p < Len(s) /\ AllDigits(s, p + 1, Len(s))

\* the whole text is a match of [A-Z]+\.\d{2}\.\d+\.\d{3}-\d+
RoomDoorWithSuffix(s) ==
    \E q \in 1..Len(s) :
        /\ \A k \in 1..q : s[k] \in Letters
        /\ \E e \in NumberBodyEnds(s, q + 1) :
              /\ e + 2 <= Len(s)
              /\ s[e + 1] = "-"
              /\ AllDigits(s, e + 2, Len(s))

\* C9: no final record has a door number without -N suffix, and a record that
\* reached the suffix rule with a room_door identifier ending in -N has its door
\* number in the final list
C9_SuffixRuleExact ==
    pc = "done" =>
        /\ \A k \in FinalIds :
              final_doors[k].door_number # NoText
                 => EndsInInstanceSuffix(final_doors[k].door_number)
        /\ \A d \in 1..Len(doors) :
              RoomDoorWithSuffix(doors[d].door_number)
                 => \E k \in FinalIds :
                       final_doors[k].door_number = doors[d].door_number

\* C10: width and height come from the label when the label has a width, else from
\* the geometry when a scale with pixels_per_meter is there, else stay None
C10_LabelBeforeGeometry ==
    \A c \in CandidateIds :
        LET d == candidates[c]
        IN IF d.label # 0 /\ IsSet(labels[d.label].width_m)
           THEN /\ FloatEq(d.width_m, labels[d.label].width_m)
                /\ FloatEq(d.height_m, labels[d.label].height_m)
           ELSE IF d.geometry # 0 /\ scale_context.present
                      /\ IsSet(scale_context.pixels_per_meter)
                THEN /\ FloatEq(d.width_m, <<geometries[d.geometry].width_px
                                                * scale_context.pixels_per_meter[2],
                                             scale_context.pixels_per_meter[1]>>)
                     /\ IF IsSet(geometries[d.geometry].height_px)
                        THEN FloatEq(d.height_m,
                                     <<geometries[d.geometry].height_px[1]
                                          * scale_context.pixels_per_meter[2],
                                       geometries[d.geometry].height_px[2]
                                          * scale_context.pixels_per_meter[1]>>)
                        ELSE d.height_m = NoFloat
                ELSE d.width_m = NoFloat /\ d.height_m = NoFloat


(***************************************************************************)
(* Material pattern matching: backend/app/services/material_pattern_detector.py *)
(*                                                                         *)
(*   - a colour is a tuple of components in hundredths; None is <<>>       *)
(*   - a colour distance is carried as its square, in units of 1/10000     *)
(*   - an angle is in whole degrees, an optional angle the pair <<deg, 1>> *)
(*   - a match confidence is in ten-thousandths (0.5 * 0.7 = 3500)         *)
(***************************************************************************)

\* the variables of the door pipeline, idle during a direct call
pipeline == <<labels, labels0, geometries, max_distance_px, scale_context, min_confidence,
              doors, candidates, final_doors, matched_geometry_ids, matched_label_indices, i>>

Idle ==
    /\ labels = <<>>
    /\ labels0 = <<>>
    /\ geometries = <<>>
    /\ max_distance_px = 0
    /\ scale_context = NoScale
    /\ min_confidence = 0
    /\ doors = <<>>
    /\ candidates = <<>>
    /\ final_doors = <<>>
    /\ matched_geometry_ids = {}
    /\ matched_label_indices = {}
    /\ i = 0

\* a direct call with the arguments a, about to run
Called(a) == args = a /\ result = <<>> /\ pc = "call" /\ Idle

\* the call returns v
Return(v) ==
    /\ pc = "call"
    /\ result' = <<v>>
    /\ pc' = "return"
    /\ UNCHANGED <<args, pipeline>>

NoColor == <<>>

Abs(x) == IF x < 0 THEN -x ELSE x

Max(a, b) == IF a > b THEN a ELSE b

PatternInfo(type, stroke, fill, angle, spacing) ==
    [pattern_type |-> type, stroke_color |-> stroke, fill_color |-> fill,
     hatching_angle |-> angle, hatching_spacing |-> spacing]

\* squared RGB distance; the fixed answers 1.0 and 0.5 squared likewise
color_distance(c1, c2) ==
    IF c1 = NoColor \/ c2 = NoColor
    THEN (IF c1 = c2 THEN 0 ELSE 100 * 100)
    ELSE IF Len(c1) < 3 \/ Len(c2) < 3
         THEN 50 * 50
         ELSE (c1[1] - c2[1]) * (c1[1] - c2[1]) + (c1[2] - c2[2]) * (c1[2] - c2[2])
              + (c1[3] - c2[3]) * (c1[3] - c2[3])

UnfoldedDifference(a1, a2) ==
    IF ~IsSet(a1) \/ ~IsSet(a2) THEN 45 ELSE Abs((a1[1] % 180) - (a2[1] % 180))

angle_distance(a1, a2) ==
    IF ~IsSet(a1) \/ ~IsSet(a2)
    THEN 45
    ELSE LET diff == Abs((a1[1] % 180) - (a2[1] % 180))
         IN  Min(diff, 180 - diff)

\* a colour distance d (squared) exceeds the tolerance t (hundredths)
Exceeds(d, t) == d > t * t

\* both spacings are truthy and differ by more than the tolerance (hundredths)
SpacingDiffers(s1, s2, spacing_tolerance) ==
    /\ Truthy(s1)
    /\ Truthy(s2)
    /\ LET v1 == s1[1] * s2[2]
           v2 == s2[1] * s1[2]
       IN  100 * Abs(v1 - v2) > spacing_tolerance * Max(v1, v2)

SameType(t1, t2) == t1 = t2

CompatibleTypes(t1, t2) ==
    t1 = t2 \/ {t1, t2} \subseteq {"solid_fill", "hatching"}

patterns_match(pattern1, pattern2, color_tolerance, angle_tolerance, spacing_tolerance) ==
    LET stroke_dist == color_distance(pattern1.stroke_color, pattern2.stroke_color)
        fill_dist == color_distance(pattern1.fill_color, pattern2.fill_color)
        angled == pattern1.pattern_type \in {"hatching", "crosshatch"}
        angle_dist == angle_distance(pattern1.hatching_angle, pattern2.hatching_angle)
        c0 == 10000
        c1 == IF Exceeds(stroke_dist, color_tolerance) THEN (c0 * 5) \div 10 ELSE c0
        c2 == IF Exceeds(fill_dist, color_tolerance) THEN (c1 * 7) \div 10 ELSE c1
        c3 == IF angled /\ angle_dist > angle_tolerance THEN (c2 * 5) \div 10 ELSE c2
        c4 == IF SpacingDiffers(pattern1.hatching_spacing, pattern2.hatching_spacing,
                                spacing_tolerance)
              THEN (c3 * 7) \div 10 ELSE c3
    IN  IF ~CompatibleTypes(pattern1.pattern_type, pattern2.pattern_type) THEN <<FALSE, 0>>
        ELSE IF Exceeds(stroke_dist, 2 * color_tolerance) THEN <<FALSE, 0>>
        ELSE IF angled /\ angle_dist > angle_tolerance * 2 THEN <<FALSE, 0>>
        ELSE <<c4 > 3000, c4>>

PatternTypes == {"hatching", "crosshatch", "solid_fill", "dots", "stipple", "none"}

Red == <<100, 0, 0>>
DarkRed == <<70, 0, 0>>
White == <<100, 100, 100>>
Gray == <<50>>

Deg(n) == <<n, 1>>

PatternPool ==
    { PatternInfo(t, s, f, a, sp) :
        t \in PatternTypes, s \in {NoColor, Red, DarkRed}, f \in {NoColor, White},
        a \in {NoFloat, Deg(45), Deg(170)}, sp \in {NoFloat, <<5, 1>>} }

\* patterns to hold against the first one: hue, angle, spacing and type set apart
Variants ==
    { PatternInfo("hatching", DarkRed, NoColor, Deg(45), <<5, 1>>),
      PatternInfo("hatching", Red, White, Deg(65), <<8, 1>>),
      PatternInfo("solid_fill", Gray, NoColor, NoFloat, NoFloat),
      PatternInfo("crosshatch", NoColor, White, Deg(10), NoFloat) }

\* (color_tolerance, angle_tolerance, spacing_tolerance): the defaults of
\* patterns_match and the values detect_pattern_in_page passes down
Tolerances == {<<20, 15, 30>>, <<40, 25, 30>>}

InitMatch ==
    \E p1 \in PatternPool, t \in Tolerances :
        \E p2 \in Variants \cup {p1} :
            Called([pattern1 |-> p1, pattern2 |-> p2, color_tolerance |-> t[1],
                    angle_tolerance |-> t[2], spacing_tolerance |-> t[3]])

CallPatternsMatch ==
    Return(patterns_match(args.pattern1, args.pattern2, args.color_tolerance,
                          args.angle_tolerance, args.spacing_tolerance))

NextMatch == CallPatternsMatch

SpecMatch == InitMatch /\ [][NextMatch]_vars

Returned1 == pc = "return"

\* C11: patterns_match applied to two identical patterns returns (true, 1.0),
\* whatever the pattern type and whichever of stroke colour, fill colour,
\* angle and spacing the pattern carries
C11_IdenticalPatternsMatch ==
    (Returned1 /\ args.pattern1 = args.pattern2) => result[1] = <<TRUE, 10000>>

\* the spec's own example does match: hatching, 45 degrees, stroke (1,0,0)
C11_ExampleMatches ==
    (Returned1 /\ args.pattern1 = args.pattern2
        /\ args.pattern1.pattern_type = "hatching"
        /\ args.pattern1.hatching_angle = Deg(45)
        /\ args.pattern1.stroke_color = Red)
    => result[1] = <<TRUE, 10000>>


\* angles on both sides of 0 and of the half turn, and no angle at all
Angles ==
    { Deg(n) : n \in {-190, -90, -10, 0, 10, 45, 89, 90, 91, 135, 170, 179, 180, 190,
                      270, 350, 360, 370} } \cup {NoFloat}

InitAngle == \E a1 \in Angles, a2 \in Angles : Called(<<a1, a2>>)

CallAngleDistance == Return(angle_distance(args[1], args[2]))

NextAngle == CallAngleDistance

SpecAngle == InitAngle /\ [][NextAngle]_vars

BothAngles == IsSet(args[1]) /\ IsSet(args[2])

\* C12: angle_distance is symmetric and stays within 0..90; angles are
\* compared modulo 180, an angle is at distance 0 from itself, and
\* angle_distance(170, 10) = 20
C12_SymmetricAndBounded ==
    (Returned1 /\ BothAngles) =>
        /\ result[1] = angle_distance(args[2], args[1])
        /\ result[1] >= 0 /\ result[1] =< 90
        /\ result[1] = angle_distance(Deg(args[1][1] + 180), args[2])
        /\ (args[1] = args[2] => result[1] = 0)
        /\ (args = <<Deg(170), Deg(10)>> => result[1] = 20)

C12_Witness == Returned1 /\ args = <<Deg(170), Deg(10)>> /\ result = <<20>>


(***************************************************************************)
(* convert_to_meters                                                       *)
(*   a length in metres is the pair <<num, den>>                           *)
(***************************************************************************)
DigitValue(c) ==
    CASE c = "0" -> 0 [] c = "1" -> 1 [] c = "2" -> 2 [] c = "3" -> 3 [] c = "4" -> 4
      [] c = "5" -> 5 [] c = "6" -> 6 [] c = "7" -> 7 [] c = "8" -> 8 [] c = "9" -> 9

\* int(s[a..b]) for a run of digits
RECURSIVE IntOf(_, _, _)
IntOf(s, a, b) == IF a > b THEN 0 ELSE IntOf(s, a, b - 1) * 10 + DigitValue(s[b])

\* \s* from position k on: the first position that holds no blank
RECURSIVE SkipSpaces(_, _)
SkipSpaces(s, k) == IF k =< Len(s) /\ s[k] = " " THEN SkipSpaces(s, k + 1) ELSE k

\* \d+ from position k on: the last position of the run of digits, k - 1 if none
RECURSIVE DigitRunEnd(_, _)
DigitRunEnd(s, k) == IF k =< Len(s) /\ s[k] \in Digits THEN DigitRunEnd(s, k + 1) ELSE k - 1

DefaultScaleFactor == 100

AlwaysDefault(scale) == DefaultScaleFactor

\* re.match(r"1\s*[:/]\s*(\d+)", scale) and the int of its group, 100 without a match
scale_factor(scale) ==
    LET c == SkipSpaces(scale, 2)
        d == SkipSpaces(scale, c + 1)
        e == DigitRunEnd(scale, d)
    IN  IF /\ Len(scale) >= 1 /\ scale[1] = "1"
           /\ c =< Len(scale) /\ scale[c] \in {":", "/"}
           /\ e >= d
        THEN IntOf(scale, d, e)
        ELSE DefaultScaleFactor

RECURSIVE Gcd(_, _)
Gcd(a, b) == IF b = 0 THEN a ELSE Gcd(b, a % b)

\* the fraction n/d (d > 0, n >= 0) in lowest terms
Ratio(n, d) == <<n \div Gcd(n, d), d \div Gcd(n, d)>>

\* length_px * 25.4 / page_dpi * scale_factor / 1000
convert_to_meters(length_px, scale, page_dpi) ==
    Ratio(length_px * 254 * scale_factor(scale), page_dpi * 10 * 1000)

Scale100 == <<"1", ":", "1", "0", "0">>
Scale50 == <<"1", ":", "5", "0">>
Scale200 == <<"1", ":", "2", "0", "0">>
Scale1 == <<"1", ":", "1">>
ScaleSpaced == <<"1", " ", ":", " ", "5", "0">>
ScaleSlash == <<"1", "/", "2", "0">>
ScaleM == <<"M", " ", "1", ":", "5", "0">>
ScaleDash == <<"1", "-", "5", "0">>
ScaleBare == <<"5", "0">>
ScaleOpen == <<"1", ":">>
ScaleEmpty == <<>>

\* the scale strings that read "1:N", each with its N
ParsableScales ==
    { <<Scale100, 100>>, <<Scale50, 50>>, <<Scale200, 200>>, <<Scale1, 1>>,
      <<ScaleSpaced, 50>>, <<ScaleSlash, 20>> }

UnparsableScales == {ScaleM, ScaleDash, ScaleBare, ScaleOpen, ScaleEmpty}

ScaleStrings == {s[1] : s \in ParsableScales} \cup UnparsableScales

Lengths == {0, 1, 72, 100, 250, 1000}

PageDpis == {72, 150}

InitConvert ==
    \E l \in Lengths, s \in ScaleStrings, d \in PageDpis :
        Called([length_px |-> l, scale |-> s, page_dpi |-> d])

CallConvertToMeters == Return(convert_to_meters(args.length_px, args.scale, args.page_dpi))

NextConvert == CallConvertToMeters

SpecConvert == InitConvert /\ [][NextConvert]_vars

\* C13: for a scale string "1:N" and a positive dpi, convert_to_meters returns
\* length_px * 25.4 / dpi * N / 1000: linear in length_px and in N, and 3.528
\* (to the millimetre) for 100 px at 1:100 and 72 dpi
C13_ConversionFormula ==
    \A s \in ParsableScales :
        (Returned1 /\ args.scale = s[1]) =>
            /\ result[1] = Ratio(args.length_px * 254 * s[2], args.page_dpi * 10000)
            /\ LET unit == convert_to_meters(1, Scale1, args.page_dpi)
               IN  result[1] = Ratio(args.length_px * s[2] * unit[1], unit[2])
            /\ (args.length_px = 100 /\ s[2] = 100 /\ args.page_dpi = 72) =>
                    /\ 2000 * result[1][1] > 7055 * result[1][2]
                    /\ 2000 * result[1][1] < 7057 * result[1][2]

C13_Witness ==
    /\ Returned1
    /\ args = [length_px |-> 100, scale |-> Scale100, page_dpi |-> 72]
    /\ result[1] = <<127, 36>>


(***************************************************************************)
(* merge_adjacent_regions                                                  *)
(*   a bbox is <<x0, y0, x1, y1>>; confidences and thicknesses are         *)
(*   fractions in lowest terms                                             *)
(***************************************************************************)
MaxRegions == 3

DetectedRegion(id, bbox, conf, length, thickness) ==
    [region_id |-> id, bbox |-> bbox, confidence |-> conf, length_px |-> length,
     wall_thickness_px |-> thickness]

MergeDistance == 5

\* (a + b) / 2
Mean(a, b) == Ratio(a[1] * b[2] + b[1] * a[2], 2 * a[2] * b[2])

\* key=lambda r: (r.bbox.y0, r.bbox.x0)
Before(r, s) ==
    r.bbox[2] < s.bbox[2] \/ (r.bbox[2] = s.bbox[2] /\ r.bbox[1] < s.bbox[1])

\* r put into the sorted list s, behind every region that does not come after it
RECURSIVE InsertByPosition(_, _)
InsertByPosition(s, r) ==
    IF s = <<>> THEN <<r>>
    ELSE IF Before(r, s[1]) THEN <<r>> \o s
         ELSE <<s[1]>> \o InsertByPosition(Tail(s), r)

\* sorted(regions, key=...): a stable sort
RECURSIVE SortedRegions(_)
SortedRegions(regions) ==
    IF regions = <<>> THEN <<>>
    ELSE InsertByPosition(SortedRegions(SubSeq(regions, 1, Len(regions) - 1)),
                          regions[Len(regions)])

x_gap(current, region) == Max(0, region.bbox[1] - current.bbox[3])
y_gap(current, region) == Max(0, region.bbox[2] - current.bbox[4])

Adjacent(current, region, merge_distance) ==
    x_gap(current, region) =< merge_distance /\ y_gap(current, region) =< merge_distance

Merged(current, region) ==
    DetectedRegion(current.region_id,
                   <<Min(current.bbox[1], region.bbox[1]), Min(current.bbox[2], region.bbox[2]),
                     Max(current.bbox[3], region.bbox[3]), Max(current.bbox[4], region.bbox[4])>>,
                   Mean(current.confidence, region.confidence),
                   current.length_px + region.length_px,
                   Mean(current.wall_thickness_px, region.wall_thickness_px))

\* the loop over sorted_regions[1:]
RECURSIVE MergeLoop(_, _, _, _)
MergeLoop(merged, current, rest, merge_distance) ==
    IF rest = <<>> THEN Append(merged, current)
    ELSE IF Adjacent(current, rest[1], merge_distance)
         THEN MergeLoop(merged, Merged(current, rest[1]), Tail(rest), merge_distance)
         ELSE MergeLoop(Append(merged, current), rest[1], Tail(rest), merge_distance)

merge_adjacent_regions(regions, merge_distance) ==
    IF Len(regions) =< 1 THEN regions
    ELSE LET sorted_regions == SortedRegions(regions)
         IN  MergeLoop(<<>>, sorted_regions[1], Tail(sorted_regions), merge_distance)

\* wall fragments as find_matching_patterns emits them, before their ids
RegionShapes ==
    { [bbox |-> <<0, 0, 100, 10>>, length_px |-> 100],
      [bbox |-> <<100, 2, 200, 12>>, length_px |-> 100],
      [bbox |-> <<500, 1, 600, 11>>, length_px |-> 100],
      [bbox |-> <<204, 0, 300, 10>>, length_px |-> 96],
      [bbox |-> <<0, 16, 10, 90>>, length_px |-> 74],
      [bbox |-> <<0, 300, 250, 310>>, length_px |-> 250] }

RegionsOf(shapes) ==
    [k \in 1..Len(shapes) |->
        DetectedRegion(k, shapes[k].bbox, <<4, 5>>, shapes[k].length_px, <<10, 1>>)]

\* the confidences patterns_match hands to a region: 1.0 and 0.5
Confidences == {<<1, 1>>, <<1, 2>>}

WithConfidences(regions, confs) ==
    [k \in DOMAIN regions |-> [regions[k] EXCEPT !.confidence = confs[k]]]

InitMerge ==
    \E shapes \in SeqsUpTo(RegionShapes, MaxRegions) :
        \E confs \in [1..Len(shapes) -> Confidences] :
            Called(WithConfidences(RegionsOf(shapes), confs))

CallMergeAdjacentRegions == Return(merge_adjacent_regions(args, MergeDistance))

NextMerge == CallMergeAdjacentRegions

SpecMerge == InitMerge /\ [][NextMerge]_vars

\* the gap between two intervals, whichever comes first
Gap(a0, a1, b0, b1) == Max(0, Max(a0, b0) - Min(a1, b1))

\* two input fragments lie within the merge distance of each other on both axes
NearAdjacent(r, s) ==
    /\ Gap(r.bbox[1], r.bbox[3], s.bbox[1], s.bbox[3]) =< MergeDistance
    /\ Gap(r.bbox[2], r.bbox[4], s.bbox[2], s.bbox[4]) =< MergeDistance

RECURSIVE SumOver(_, _)
SumOver(f, S) ==
    IF S = {} THEN 0 ELSE LET k == CHOOSE k \in S : TRUE IN f[k] + SumOver(f, S \ {k})

\* the output region out is exactly the inputs ks folded together
FoldOf(out, ks) ==
    /\ ks # {}
    /\ out.bbox[1] = CHOOSE v \in {args[k].bbox[1] : k \in ks} :
                        \A k \in ks : v =< args[k].bbox[1]
    /\ out.bbox[2] = CHOOSE v \in {args[k].bbox[2] : k \in ks} :
                        \A k \in ks : v =< args[k].bbox[2]
    /\ out.bbox[3] = CHOOSE v \in {args[k].bbox[3] : k \in ks} :
                        \A k \in ks : v >= args[k].bbox[3]
    /\ out.bbox[4] = CHOOSE v \in {args[k].bbox[4] : k \in ks} :
                        \A k \in ks : v >= args[k].bbox[4]
    /\ out.length_px = SumOver([k \in DOMAIN args |-> args[k].length_px], ks)

\* f assigns every input region the one output region it was folded into
Folding(f) ==
    \A o \in DOMAIN result[1] : FoldOf(result[1][o], {k \in DOMAIN args : f[k] = o})

\* geometry and length are conserved by some assignment of inputs to outputs
MergeConserves ==
    Returned1 =>
        /\ \E f \in [DOMAIN args -> DOMAIN result[1]] : Folding(f)
        /\ SumOver([o \in DOMAIN result[1] |-> result[1][o].length_px], DOMAIN result[1])
             = SumOver([k \in DOMAIN args |-> args[k].length_px], DOMAIN args)

\* C15: merge_adjacent_regions conserves geometry and length (every input
\* region is folded into exactly one output region, whose bbox is the union
\* and whose length_px is the sum of what was folded into it), and fragments
\* that are pairwise near-adjacent come out as a single region
C15_ConservedAndConsolidated ==
    Returned1 =>
        /\ SumOver([o \in DOMAIN result[1] |-> result[1][o].length_px], DOMAIN result[1])
             = SumOver([k \in DOMAIN args |-> args[k].length_px], DOMAIN args)
        /\ \E f \in [DOMAIN args -> DOMAIN result[1]] :
              /\ Folding(f)
              /\ \A j \in DOMAIN args, k \in DOMAIN args :
                    NearAdjacent(args[j], args[k]) => f[j] = f[k]


(***************************************************************************)
(* detect_pattern_in_page, from the regions find_matching_patterns found   *)
(***************************************************************************)
AddRatio(a, b) == Ratio(a[1] * b[2] + b[1] * a[2], a[2] * b[2])

\* sum(...) over a list of fractions
RECURSIVE SumRatios(_)
SumRatios(s) == IF s = <<>> THEN <<0, 1>> ELSE AddRatio(s[1], SumRatios(Tail(s)))

RECURSIVE SumLengths(_)
SumLengths(s) == IF s = <<>> THEN 0 ELSE s[1].length_px + SumLengths(Tail(s))

PointsPerInch == 72

NoMatchWarning == "No matching patterns found in drawing area"

detect_pattern_in_page(regions, scale) ==
    LET merged_regions == merge_adjacent_regions(regions, MergeDistance)
        length_m(r) == convert_to_meters(r.length_px, scale, PointsPerInch)
        count == Len(merged_regions)
    IN  [detected_regions |->
            [k \in 1..count |-> [region |-> merged_regions[k],
                                 length_m |-> length_m(merged_regions[k])]],
         total_length_px |-> SumLengths(merged_regions),
         total_length_m |-> SumRatios([k \in 1..count |-> length_m(merged_regions[k])]),
         segment_count |-> count,
         confidence |->
            IF count > 0
            THEN LET total == SumRatios([k \in 1..count |-> merged_regions[k].confidence])
                 IN  Ratio(total[1], total[2] * count)
            ELSE <<0, 1>>,
         warnings |-> IF count > 0 THEN <<>> ELSE <<NoMatchWarning>>]

InitDetect ==
    \E shapes \in SeqsUpTo(RegionShapes, MaxRegions), s \in ScaleStrings :
        Called([regions |-> RegionsOf(shapes), scale |-> s])

CallDetectPatternInPage == Return(detect_pattern_in_page(args.regions, args.scale))

NextDetect == CallDetectPatternInPage

SpecDetect == InitDetect /\ [][NextDetect]_vars

\* the lengths of the result are those of the scale 1:n
ConvertedAt(n) ==
    /\ result[1].total_length_m = Ratio(result[1].total_length_px * 254 * n, 720000)
    /\ \A k \in DOMAIN result[1].detected_regions :
          LET d == result[1].detected_regions[k]
          IN  d.length_m = Ratio(d.region.length_px * 254 * n, 720000)

\* a warning that is not the one about finding no region
WarnsAboutScale ==
    \E k \in DOMAIN result[1].warnings : result[1].warnings[k] # NoMatchWarning

\* the default 1:100 is used for an unparsable scale, as the claim says
UnparsableScaleDefaults ==
    (Returned1 /\ args.scale \in UnparsableScales) => ConvertedAt(100)

\* C14: when the scale string is absent or not of the form "1:N", the
\* conversion uses N = 100 and the result it returns carries a warning about
\* it; the default is never applied silently
C14_DefaultScaleIsWarned ==
    (Returned1 /\ args.scale \in UnparsableScales) =>
        ConvertedAt(100) /\ WarnsAboutScale


(***************************************************************************)
(* parse_dimension_from_text (door_label_detection.py)                     *)
(*   a result is <<width_m, height_m>>, both fractions; None is <<>>       *)
(***************************************************************************)
NoDimensions == <<>>

Crosses == {"x", "X"}

DecimalMarks == {",", "."}

\* \d+[,\.]\d{2} from position p on: the position of its last digit, 0 without a match
DecimalEnd(s, p) ==
    LET e == DigitRunEnd(s, p)
    IN  IF /\ e >= p /\ e + 3 =< Len(s)
           /\ s[e + 1] \in DecimalMarks
           /\ s[e + 2] \in Digits /\ s[e + 3] \in Digits
        THEN e + 3 ELSE 0

\* float of the decimal number in s[p..e], whose last two digits are the fraction
DecimalValue(s, p, e) == <<IntOf(s, p, e - 3) * 100 + IntOf(s, e - 1, e), 100>>

\* the matches <<p, e, d, f>> of (\d+[,\.]\d{2})\s*[xX]\s*(\d+[,\.]\d{2}):
\* group 1 is s[p..e], group 2 is s[d..f]
DecimalMatches(s) ==
    { m \in (1..Len(s)) \X (1..Len(s)) \X (1..Len(s)) \X (1..Len(s)) :
        /\ m[2] = DecimalEnd(s, m[1])
        /\ LET k == SkipSpaces(s, m[2] + 1)
           IN  /\ k =< Len(s) /\ s[k] \in Crosses
               /\ m[3] = SkipSpaces(s, k + 1)
        /\ m[4] = DecimalEnd(s, m[3]) }

\* the matches <<p, n, d>> of (\d{2,3})\s*[xX]\s*(\d{3}): group 1 is the n
\* digits from p on, group 2 the three digits from d on
CentimetreMatches(s) ==
    { m \in (1..Len(s)) \X {2, 3} \X (1..Len(s)) :
        /\ m[1] + m[2] - 1 =< Len(s)
        /\ AllDigits(s, m[1], m[1] + m[2] - 1)
        /\ LET k == SkipSpaces(s, m[1] + m[2])
           IN  /\ k =< Len(s) /\ s[k] \in Crosses
               /\ m[3] = SkipSpaces(s, k + 1)
        /\ m[3] + 2 =< Len(s)
        /\ AllDigits(s, m[3], m[3] + 2) }

\* re.search: the match that starts leftmost, its first group as long as it can be
First(matches) ==
    CHOOSE m \in matches :
        \A o \in matches : m[1] < o[1] \/ (m[1] = o[1] /\ m[2] >= o[2])

AnySize(width_cm, height_cm) == TRUE

\* 0.5 <= width_m <= 2.0 and 1.8 <= height_m <= 2.8
DoorSized(width_cm, height_cm) ==
    /\ 50 =< width_cm /\ width_cm =< 200
    /\ 180 =< height_cm /\ height_cm =< 280

parse_dimension_from_text(text) ==
    IF DecimalMatches(text) # {}
    THEN LET m == First(DecimalMatches(text))
         IN  <<DecimalValue(text, m[1], m[2]), DecimalValue(text, m[3], m[4])>>
    ELSE IF CentimetreMatches(text) # {}
         THEN LET m == First(CentimetreMatches(text))
                  width_cm == IntOf(text, m[1], m[1] + m[2] - 1)
                  height_cm == IntOf(text, m[3], m[3] + 2)
              IN  IF DoorSized(width_cm, height_cm)
                  THEN <<(<<width_cm, 100>>), (<<height_cm, 100>>)>>
                  ELSE NoDimensions
         ELSE NoDimensions

DigitChar(n) == CHOOSE c \in Digits : DigitValue(c) = n

\* str(n)
RECURSIVE DigitsOf(_)
DigitsOf(n) == IF n < 10 THEN <<DigitChar(n)>> ELSE DigitsOf(n \div 10) \o <<DigitChar(n % 10)>>

Separators == { <<" ", "x", " ">>, <<"X">> }

\* the text "W x H" of two whole numbers
CentimetreText(w, h, sep) == DigitsOf(w) \o sep \o DigitsOf(h)

\* the text "W,ww x H,hh"
DecimalText(w, ww, h, hh, sep) ==
    DigitsOf(w) \o <<",">> \o DigitsOf(ww) \o sep \o DigitsOf(h) \o <<".">> \o DigitsOf(hh)

Widths == {1, 10, 49, 50, 90, 100, 200, 201, 300}

Heights == {2, 20, 179, 180, 210, 280, 281, 300}

DimensionTexts ==
    { CentimetreText(w, h, sep) : w \in Widths, h \in Heights, sep \in Separators }
    \cup { DecimalText(w, ww, h, hh, sep) :
             w \in {0, 1, 12}, ww \in {90, 10}, h \in {2, 3}, hh \in {10}, sep \in Separators }
    \cup { <<"0", ",", "9", "0", " ", "x", " ", "2", ",", "1", "0">>,
           <<"1", "0", "9", "0", " ", "x", " ", "2", "1", "0", "0">>,
           <<"T", "3", "0">>, <<>> }

InitDims == \E t \in DimensionTexts : Called(t)

CallParseDimensionFromText == Return(parse_dimension_from_text(args))

NextDims == CallParseDimensionFromText

SpecDims == InitDims /\ [][NextDims]_vars

Dimensions(width_cm, height_cm) == <<(<<width_cm, 100>>), (<<height_cm, 100>>)>>

\* C16: the centimetre form "W x H" is accepted only if W/100 lies in
\* [0.5, 2.0] and H/100 in [1.8, 2.8], and gives None otherwise;
\* "0,90 x 2,10" and "90 x 210" both give (0.90, 2.10), and "10 x 20",
\* "1 x 2" and "100 x 300" give None
C16_CentimetreFormBounds ==
    /\ \A w \in Widths, h \in Heights, sep \in Separators :
          (Returned1 /\ args = CentimetreText(w, h, sep)) =>
              IF 50 =< w /\ w =< 200 /\ 180 =< h /\ h =< 280
              THEN result[1] = Dimensions(w, h)
              ELSE result[1] = NoDimensions
    /\ (Returned1 /\ args = <<"0", ",", "9", "0", " ", "x", " ", "2", ",", "1", "0">>)
          => result[1] = Dimensions(90, 210)
    /\ (Returned1 /\ args = <<"9", "0", " ", "x", " ", "2", "1", "0">>)
          => result[1] = Dimensions(90, 210)
    /\ (Returned1 /\ args \in { <<"1", "0", " ", "x", " ", "2", "0">>,
                                <<"1", " ", "x", " ", "2">>,
                                <<"1", "0", "0", " ", "x", " ", "3", "0", "0">> })
          => result[1] = NoDimensions

C16_Witness ==
    /\ Returned1
    /\ args = <<"1", "0", "0", " ", "x", " ", "3", "0", "0">>
    /\ result[1] = NoDimensions


(***************************************************************************)
(* group_nearby_labels and _merge_label_group (door_label_detection.py)    *)
(*   a group is the list of the indices of its labels, the seed first      *)
(***************************************************************************)
MaxGroupLabels == 3

WithinStrictly(b1, b2, max_distance) == LabelDist4(b1, b2) < Radius4(max_distance)

\* distance <= max_distance_px between two bbox centers
Within(b1, b2, max_distance) == LabelDist4(b1, b2) <= Radius4(max_distance)

\* the inner loop from label j on: the group of seed i, given what is used already
RECURSIVE GroupOfSeed(_, _, _, _, _)
GroupOfSeed(ls, seed, j, used, max_distance) ==
    IF j > Len(ls) THEN <<>>
    ELSE IF j \notin used /\ j # seed /\ Within(ls[seed].bbox, ls[j].bbox, max_distance)
         THEN <<j>> \o GroupOfSeed(ls, seed, j + 1, used, max_distance)
         ELSE GroupOfSeed(ls, seed, j + 1, used, max_distance)

Indices(s) == {s[k] : k \in DOMAIN s}

\* the outer loop from label k on: the groups in the order they are started
RECURSIVE LabelGroups(_, _, _, _)
LabelGroups(ls, k, used, max_distance) ==
    IF k > Len(ls) THEN <<>>
    ELSE IF k \in used THEN LabelGroups(ls, k + 1, used, max_distance)
         ELSE LET group == <<k>> \o GroupOfSeed(ls, k, 1, used \cup {k}, max_distance)
              IN  <<group>> \o LabelGroups(ls, k + 1, used \cup Indices(group), max_distance)

\* sorted(group, key=lambda lbl: lbl.bbox[1]): a stable sort
RECURSIVE InsertByTop(_, _)
InsertByTop(s, l) ==
    IF s = <<>> THEN <<l>>
    ELSE IF l.bbox[2] < s[1].bbox[2] THEN <<l>> \o s
         ELSE <<s[1]>> \o InsertByTop(Tail(s), l)

RECURSIVE SortedByTop(_)
SortedByTop(group) ==
    IF group = <<>> THEN <<>>
    ELSE InsertByTop(SortedByTop(SubSeq(group, 1, Len(group) - 1)), group[Len(group)])

\* " ".join(texts)
RECURSIVE JoinTexts(_)
JoinTexts(ts) ==
    IF Len(ts) = 1 THEN ts[1] ELSE ts[1] \o <<" ">> \o JoinTexts(Tail(ts))

\* "+".join(sorted(types))
JoinTypes(types) ==
    CASE types = {"dimension"} -> "dimension"
      [] types = {"fire_rating"} -> "fire_rating"
      [] types = {"room_door"} -> "room_door"
      [] types = {"dimension", "fire_rating"} -> "dimension+fire_rating"
      [] types = {"dimension", "room_door"} -> "dimension+room_door"
      [] types = {"fire_rating", "room_door"} -> "fire_rating+room_door"
      [] types = {"dimension", "fire_rating", "room_door"} -> "dimension+fire_rating+room_door"

\* next((v for v in values if v is not None), None)
RECURSIVE FirstNotNone(_, _)
FirstNotNone(values, none) ==
    IF values = <<>> THEN none
    ELSE IF values[1] # none THEN values[1] ELSE FirstNotNone(Tail(values), none)

SetMin(S) == CHOOSE v \in S : \A w \in S : v <= w
SetMax(S) == CHOOSE v \in S : \A w \in S : v >= w

_merge_label_group(group) ==
    IF Len(group) = 1 THEN group[1]
    ELSE LET group_sorted == SortedByTop(group)
             ks == DOMAIN group
         IN  [label_text |-> JoinTexts([k \in ks |-> group_sorted[k].label_text]),
              bbox |-> <<SetMin({group[k].bbox[1] : k \in ks}),
                         SetMin({group[k].bbox[2] : k \in ks}),
                         SetMax({group[k].bbox[3] : k \in ks}),
                         SetMax({group[k].bbox[4] : k \in ks})>>,
              confidence |-> SetMax({group[k].confidence : k \in ks}),
              pattern_type |-> JoinTypes({group[k].pattern_type : k \in ks}),
              width_m |-> FirstNotNone([k \in ks |-> group[k].width_m], NoFloat),
              height_m |-> FirstNotNone([k \in ks |-> group[k].height_m], NoFloat),
              door_type |-> FirstNotNone([k \in ks |-> group[k].door_type], "None"),
              fire_rating |-> FirstNotNone([k \in ks |-> group[k].fire_rating], NoRating)]

\* the returned list, and beside it the group each of its labels was merged from
group_nearby_labels(ls, max_distance) ==
    LET groups == LabelGroups(ls, 1, {}, max_distance)
    IN  [grouped |-> [g \in DOMAIN groups |->
                        _merge_label_group([k \in DOMAIN groups[g] |-> ls[groups[g][k]]])],
         group |-> groups]

BoxD == <<60, 30, 80, 40>>      \* center (70, 35)

\* text blocks as _apply_patterns_to_text emits them
BlockLabels ==
    { Label(TextB, BoxA, 75, "room_door", NoFloat, NoFloat, NoRating),
      Label(TextB1, BoxB, 75, "room_door", NoFloat, NoFloat, NoRating),
      Label(TextT30, BoxB, 95, "fire_rating", NoFloat, NoFloat, "T30"),
      Label(TextDim, BoxC, 95, "dimension", <<90, 100>>, <<210, 100>>, NoRating),
      Label(TextT90, BoxD, 95, "fire_rating", NoFloat, NoFloat, "T90") }

GroupRadii == {50, 60}

InitGroup ==
    \E ls \in SeqsUpTo(BlockLabels, MaxGroupLabels), r \in GroupRadii :
        Called([labels |-> ls, max_distance_px |-> r])

CallGroupNearbyLabels == Return(group_nearby_labels(args.labels, args.max_distance_px))

NextGroup == CallGroupNearbyLabels

SpecGroup == InitGroup /\ [][NextGroup]_vars

\* the output labels that input label k contributes to
OutputsOf(k) == {g \in DOMAIN result[1].group : k \in Indices(result[1].group[g])}

\* the centers of input labels j and k are at most max_distance_px apart
Near(j, k) ==
    LabelDist4(args.labels[j].bbox, args.labels[k].bbox)
        <= 4 * args.max_distance_px * args.max_distance_px

EveryLabelInOneOutput ==
    /\ Len(result[1].grouped) = Len(result[1].group)
    /\ \A k \in DOMAIN args.labels : Cardinality(OutputsOf(k)) = 1
    /\ \A g \in DOMAIN result[1].group :
          /\ Cardinality(Indices(result[1].group[g])) = Len(result[1].group[g])
          /\ Indices(result[1].group[g]) \subseteq DOMAIN args.labels

Seed(g) == result[1].group[g][1]

ZeroDivisionError == <<1, 0>>

NoGeometry == <<>>

\* LineSegment.midpoint, doubled
midpoint2(seg) == <<seg[1] + seg[3], seg[2] + seg[4]>>

\* LineSegment.angle_degrees for the directions of the model: along the axes
\* and the diagonals; a segment without direction has angle 0
angle_degrees(seg) ==
    LET dx == seg[3] - seg[1]
        dy == seg[4] - seg[2]
    IN  CASE dy = 0 /\ dx >= 0 -> 0
          [] dy = 0 /\ dx < 0 -> 180
          [] dx = 0 /\ dy > 0 -> 90
          [] dx = 0 /\ dy < 0 -> -90
          [] dx > 0 /\ dy = dx -> 45
          [] dx > 0 /\ dy = -dx -> -45
          [] dx < 0 /\ dy = -dx -> 135
          [] dx < 0 /\ dy = dx -> -135

\* LineSegment.length_px, squared
length_px(seg) ==
    (seg[3] - seg[1]) * (seg[3] - seg[1]) + (seg[4] - seg[2]) * (seg[4] - seg[2])

\* numerator / denominator, whatever the denominator
DividesAnyway(seg1, seg2) ==
    LET a == seg1[4] - seg1[2]
        b == seg1[1] - seg1[3]
        c == seg1[3] * seg1[2] - seg1[1] * seg1[4]
        p == midpoint2(seg2)
        numerator2 == Abs(a * p[1] + b * p[2] + 2 * c)
    IN  IF a * a + b * b = 0 THEN ZeroDivisionError
        ELSE Ratio(numerator2 * numerator2, 4 * (a * a + b * b))

_distance_between_parallel_lines(seg1, seg2) ==
    LET a == seg1[4] - seg1[2]
        b == seg1[1] - seg1[3]
        c == seg1[3] * seg1[2] - seg1[1] * seg1[4]
        p == midpoint2(seg2)
        numerator2 == Abs(a * p[1] + b * p[2] + 2 * c)
        denominator_squared == a * a + b * b
    IN  IF denominator_squared = 0 THEN <<0, 1>>
        ELSE Ratio(numerator2 * numerator2, 4 * denominator_squared)

\* the square of a fraction
Squared(f) == Ratio(f[1] * f[1], f[2] * f[2])

\* low <= f <= high for fractions with positive denominators
Between(low, f, high) ==
    /\ low[1] * f[2] =< f[1] * low[2]
    /\ f[1] * high[2] =< high[1] * f[2]

\* min_door_width_m < distance_px / pixels_per_meter < max_door_width_m
DoorWideStrictly(distance_squared, pixels_per_meter, min_door_width_m, max_door_width_m) ==
    LET distance_m == Ratio(distance_squared[1],
                            distance_squared[2] * pixels_per_meter * pixels_per_meter)
        low == Squared(min_door_width_m)
        high == Squared(max_door_width_m)
    IN  /\ low[1] * distance_m[2] < distance_m[1] * low[2]
        /\ distance_m[1] * high[2] < high[1] * distance_m[2]

\* min_door_width_m <= distance_px / pixels_per_meter <= max_door_width_m
DoorWide(distance_squared, pixels_per_meter, min_door_width_m, max_door_width_m) ==
    Between(Squared(min_door_width_m),
            Ratio(distance_squared[1],
                  distance_squared[2] * pixels_per_meter * pixels_per_meter),
            Squared(max_door_width_m))

RectangleConfidence == 60

\* the body of the loop over the pairs of detect_door_rectangles, for one pair;
\* an exception ends the detection without a geometry for the pair
RectangleOfPair(seg1, seg2, pixels_per_meter, min_door_width_m, max_door_width_m) ==
    LET distance_px == _distance_between_parallel_lines(seg1, seg2)
        xs == {seg1[1], seg1[3], seg2[1], seg2[3]}
        ys == {seg1[2], seg1[4], seg2[2], seg2[4]}
    IN  [distance_px |-> distance_px,
         geometry |->
            IF Abs(angle_degrees(seg1) - angle_degrees(seg2)) > 10 THEN NoGeometry
            ELSE IF distance_px = ZeroDivisionError THEN NoGeometry
            ELSE IF DoorWide(distance_px, pixels_per_meter,
                             min_door_width_m, max_door_width_m)
                 THEN [opening_type |-> "rectangle",
                       center4 |-> <<seg1[1] + seg1[3] + seg2[1] + seg2[3],
                                     seg1[2] + seg1[4] + seg2[2] + seg2[4]>>,
                       width_px |-> distance_px,
                       height_px |-> Max(length_px(seg1), length_px(seg2)),
                       parallel_lines |-> <<seg1, seg2>>,
                       bbox |-> <<SetMin(xs), SetMin(ys), SetMax(xs), SetMax(ys)>>,
                       confidence |-> RectangleConfidence]
                 ELSE NoGeometry]

FirstSegments ==
    { <<0, 0, 30, 0>>, <<30, 0, 0, 0>>, <<0, 0, 0, 30>>, <<5, 5, 25, 25>>,
      <<0, 20, 20, 0>>, <<10, 10, 10, 10>>, <<0, 0, 0, 0>>, <<7, 3, 7, 3>> }

SecondSegments ==
    { <<0, 14, 30, 14>>, <<0, 40, 30, 40>>, <<0, 6, 30, 6>>, <<16, 0, 16, 30>>,
      <<15, 5, 35, 25>>, <<10, 10, 40, 10>>, <<3, 3, 3, 3>>, <<10, 10, 10, 10>>,
      <<0, 0, 30, 0>> }

PixelsPerMeter == {10, 20}

MinWidths == { <<0, 1>>, <<6, 10>> }

MaxWidth == <<15, 10>>

InitLines ==
    \E s1 \in FirstSegments, s2 \in SecondSegments, ppm \in PixelsPerMeter, m \in MinWidths :
        Called([seg1 |-> s1, seg2 |-> s2, pixels_per_meter |-> ppm,
                min_door_width_m |-> m, max_door_width_m |-> MaxWidth])

CallRectangleOfPair ==
    Return(RectangleOfPair(args.seg1, args.seg2, args.pixels_per_meter,
                           args.min_door_width_m, args.max_door_width_m))

NextLines == CallRectangleOfPair

SpecLines == InitLines /\ [][NextLines]_vars

Degenerate(seg) == seg[1] = seg[3] /\ seg[2] = seg[4]

\* the squared distance of the midpoint of seg2 from the line through seg1, by
\* the area of the parallelogram the two span over the length of seg1
PerpendicularSquared(seg1, seg2) ==
    LET ux == seg1[3] - seg1[1]
        uy == seg1[4] - seg1[2]
        vx2 == seg2[1] + seg2[3] - 2 * seg1[1]
        vy2 == seg2[2] + seg2[4] - 2 * seg1[2]
        area2 == ux * vy2 - uy * vx2
    IN  Ratio(area2 * area2, 4 * (ux * ux + uy * uy))

\* C18: _distance_between_parallel_lines never raises: for a degenerate first
\* segment it returns 0.0 instead of dividing by zero, for any other first
\* segment the non-negative perpendicular distance of the second segment's
\* midpoint from the line through the first; with min_door_width_m > 0 a pair
\* whose first segment is degenerate yields no rectangle door
C18_DegenerateSegmentGuarded ==
    Returned1 =>
        /\ result[1].distance_px # ZeroDivisionError
        /\ result[1].distance_px[2] > 0 /\ result[1].distance_px[1] >= 0
        /\ Degenerate(args.seg1) =>
              /\ result[1].distance_px = <<0, 1>>
              /\ args.min_door_width_m[1] > 0 => result[1].geometry = NoGeometry
        /\ ~Degenerate(args.seg1) =>
              result[1].distance_px = PerpendicularSquared(args.seg1, args.seg2)

C18_Witness ==
    /\ Returned1
    /\ Degenerate(args.seg1)
    /\ ~Degenerate(args.seg2)
    /\ args.min_door_width_m[1] > 0
    /\ result[1].distance_px = <<0, 1>>
    /\ result[1].geometry = NoGeometry

\* a pair of proper segments that does become a rectangle door
RectangleFound ==
    Returned1 /\ ~Degenerate(args.seg1) /\ result[1].geometry # NoGeometry


(***************************************************************************)
(* The entry points over a whole PDF: extract_doors_from_pdf               *)
(* (door_geometry_extraction.py) and extract_drywall_from_pdf              *)
(* (drywall_symbol_extraction.py)                                          *)
(*   a PDF is the list of its pages; for the door pipeline a page holds    *)
(*   the number of doors found on it, for the drywall pipeline the kind of *)
(*   legend parse_plankopf reads from it and the wall regions              *)
(*   find_matching_patterns finds on it                                    *)
(***************************************************************************)
MaxPages == 2

NoPage == -1

\* a warning string and the page number it names, NoPage if it names none
Warning(page, text) == [page |-> page, text |-> text]

DoorPage(door_count) == [doors |-> door_count]

DrywallPage(legend, walls) == [legend |-> legend, walls |-> walls]

\* detect_door_labels refuses a page number outside 1..len(doc)
InvalidPageNumber(pdf, page_number) == page_number - 1 < 0 \/ page_number - 1 >= Len(pdf)

\* _extract_doors_from_page: the doors of the page, or the exception raised
ExtractDoorsFromPage(pdf, page_number) ==
    IF InvalidPageNumber(pdf, page_number)
    THEN [raised |-> TRUE, doors |-> <<>>]
    ELSE [raised |-> FALSE,
          doors |-> [k \in 1..pdf[page_number].doors |-> [page_number |-> page_number, k |-> k]]]

\* the loop over pages_to_process, with its try and except
RECURSIVE ProcessDoorPages(_, _)
ProcessDoorPages(pdf, pages) ==
    IF pages = <<>> THEN [doors |-> <<>>, warnings |-> <<>>]
    ELSE LET page == ExtractDoorsFromPage(pdf, pages[1])
             rest == ProcessDoorPages(pdf, Tail(pages))
         IN  IF page.raised
             THEN [doors |-> rest.doors,
                   warnings |-> <<Warning(pages[1], "Invalid page number")>> \o rest.warnings]
             ELSE [doors |-> page.doors \o rest.doors, warnings |-> rest.warnings]

\* page_number None is NoPage: every page, numbered from 1
extract_doors_from_pdf(pdf, page_number) ==
    LET pages_to_process ==
            IF page_number # NoPage THEN <<page_number>> ELSE [k \in 1..Len(pdf) |-> k]
        processed == ProcessDoorPages(pdf, pages_to_process)
    IN  [entry |-> "doors", doors |-> processed.doors, warnings |-> processed.warnings,
         total_doors |-> Len(processed.doors)]

\* if page_num >= page_count: continue
Skipped(pdf, page_num) == page_num >= Len(pdf)

\* the first page to analyse that is in the document and carries a legend
RECURSIVE PlankopfPage(_, _)
PlankopfPage(pdf, pages) ==
    IF pages = <<>> THEN NoPage
    ELSE IF ~Skipped(pdf, pages[1]) /\ pdf[pages[1] + 1].legend # "none" THEN pages[1]
         ELSE PlankopfPage(pdf, Tail(pages))

\* the loop over pages_to_analyze for one drywall symbol
RECURSIVE ScanPages(_, _, _)
ScanPages(pdf, pages, scale) ==
    IF pages = <<>> THEN [pages_analyzed |-> <<>>, warnings |-> <<>>, segments |-> <<>>]
    ELSE LET rest == ScanPages(pdf, Tail(pages), scale)
         IN  IF Skipped(pdf, pages[1]) THEN rest
             ELSE LET match_result == detect_pattern_in_page(pdf[pages[1] + 1].walls, scale)
                      found == match_result.detected_regions
                  IN  [pages_analyzed |-> <<pages[1]>> \o rest.pages_analyzed,
                       warnings |-> [k \in DOMAIN match_result.warnings |->
                                        Warning(NoPage, match_result.warnings[k])]
                                    \o rest.warnings,
                       segments |-> [k \in DOMAIN found |->
                                        [page_number |-> pages[1],
                                         bbox |-> found[k].region.bbox,
                                         length_m |-> found[k].length_m]]
                                    \o rest.segments]

\* page_numbers None or empty is <<>>: every page, numbered from 0
extract_drywall_from_pdf(pdf, page_numbers, scale_override) ==
    LET pages_to_analyze ==
            IF page_numbers # <<>> THEN page_numbers ELSE [k \in 1..Len(pdf) |-> k - 1]
        plankopf_page == PlankopfPage(pdf, pages_to_analyze)
        scale == IF scale_override # NoText THEN scale_override ELSE Scale100
        scan == ScanPages(pdf, pages_to_analyze, scale)
        partial(text) ==
            [entry |-> "drywall", status |-> "partial",
             warnings |-> <<Warning(NoPage, text)>>, detection_warnings |-> <<>>,
             pages_analyzed |-> <<>>, segments |-> <<>>]
    IN  IF plankopf_page = NoPage THEN partial("No Plankopf (legend) found in document")
        ELSE IF pdf[plankopf_page + 1].legend # "drywall"
             THEN partial("No drywall symbols found in Plankopf legend")
             ELSE [entry |-> "drywall",
                   status |-> IF scan.segments = <<>> THEN "partial" ELSE "ok",
                   warnings |->
                      IF scan.segments = <<>>
                      THEN <<Warning(NoPage, "Drywall symbols found in legend but no matching patterns detected in drawing")>>
                      ELSE <<>>,
                   detection_warnings |-> scan.warnings,
                   pages_analyzed |-> scan.pages_analyzed,
                   segments |-> scan.segments]

WallRegions == {<<>>, RegionsOf(<<[bbox |-> <<0, 0, 100, 10>>, length_px |-> 100]>>)}

DoorPdfs == SeqsUpTo({DoorPage(n) : n \in 0..2}, MaxPages) \ {<<>>}

DrywallPdfs ==
    SeqsUpTo({ DrywallPage(l, w) : l \in {"none", "drywall", "other"}, w \in WallRegions },
             MaxPages) \ {<<>>}

\* one page by its number from 1, or all of them
DoorPageNumbers == {NoPage} \cup (0..(MaxPages + 1))

\* pages by their numbers from 0
DrywallPageNumbers == SeqsUpTo(0..MaxPages, 2)

InitPdf ==
    \/ \E pdf \in DoorPdfs, n \in DoorPageNumbers :
          Called([entry |-> "doors", pdf |-> pdf, page_number |-> n])
    \/ \E pdf \in DrywallPdfs, ns \in DrywallPageNumbers, s \in {NoText, Scale50} :
          Called([entry |-> "drywall", pdf |-> pdf, page_numbers |-> ns,
                  scale_override |-> s])

CallExtractDoorsFromPdf ==
    /\ args.entry = "doors"
    /\ Return(extract_doors_from_pdf(args.pdf, args.page_number))

CallExtractDrywallFromPdf ==
    /\ args.entry = "drywall"
    /\ Return(extract_drywall_from_pdf(args.pdf, args.page_numbers, args.scale_override))

NextPdf == CallExtractDoorsFromPdf \/ CallExtractDrywallFromPdf

SpecPdf == InitPdf /\ [][NextPdf]_vars

Names(warnings, page) == \E k \in DOMAIN warnings : warnings[k].page = page

\* extract_doors_from_pdf does recover as the claim says
DoorsRecoverInvalidPage ==
    (Returned1 /\ result[1].entry = "doors") =>
        /\ \A p \in 1..Len(args.pdf) :
              (args.page_number \in {NoPage, p}) =>
                  Cardinality({k \in DOMAIN result[1].doors :
                                  result[1].doors[k].page_number = p}) = args.pdf[p].doors
        /\ (args.page_number # NoPage /\ args.page_number \notin 1..Len(args.pdf)) =>
              /\ result[1].doors = <<>>
              /\ Names(result[1].warnings, args.page_number)

\* C19: an invalid page index is recovered locally by both entry points: the
\* invalid page contributes no records, a warning naming the page is
\* recorded in the result, and the valid pages requested in the same call are
\* still processed
C19_InvalidPageRecovered ==
    /\ DoorsRecoverInvalidPage
    /\ (Returned1 /\ result[1].entry = "drywall") =>
          \A k \in DOMAIN args.page_numbers :
              LET p == args.page_numbers[k]
              IN  p >= Len(args.pdf) =>
                    /\ \A j \in DOMAIN result[1].segments :
                          result[1].segments[j].page_number # p
                    /\ \/ Names(result[1].warnings, p)
                       \/ Names(result[1].detection_warnings, p)


(***************************************************************************)
(* Order of the confidence filter in _extract_doors_from_page              *)
(***************************************************************************)
\* the page result with the filter applied last: the suffix rule and the
\* deduplication over every candidate, then the minimum confidence
FilteredLast ==
    SelectSeq(Values(UniqueDoors(candidates, 1, <<>>)),
              LAMBDA d : d.confidence >= min_confidence)

\* C20: the page result, taken as a set of records, is the same whether the
\* minimum-confidence filter comes before the deduplication (the code) or
\* after the suffix rule and the deduplication, and no record of the result
\* has a confidence below min_confidence
C20_FilterOrderImmaterial ==
    pc = "done" =>
        /\ {final_doors[k] : k \in FinalIds} = {FilteredLast[k] : k \in DOMAIN FilteredLast}
        /\ \A k \in FinalIds : final_doors[k].confidence >= min_confidence

\* one door number on two candidates, one below the threshold and one past it,
\* and the one past it is the page's record
C20_Witness ==
    /\ pc = "done"
    /\ \E b, c \in CandidateIds :
          /\ candidates[b].door_number = candidates[c].door_number
          /\ DoorNumberWithSuffixMatch(candidates[b].door_number)
          /\ candidates[b].confidence < min_confidence
          /\ candidates[c].confidence >= min_confidence
          /\ \E k \in FinalIds : final_doors[k] = candidates[c]


(***************************************************************************)
(* patterns_match as a rule, and its symmetry (SpecMatch)                  *)
(***************************************************************************)

\* the number of times the confidence is halved (stroke colour, angle) and
\* damped by 0.7 (fill colour, spacing) for the call in args
StrokeDistance == color_distance(args.pattern1.stroke_color, args.pattern2.stroke_color)

FillDistance == color_distance(args.pattern1.fill_color, args.pattern2.fill_color)

AngleDistance == angle_distance(args.pattern1.hatching_angle, args.pattern2.hatching_angle)

Hatched == args.pattern1.pattern_type \in {"hatching", "crosshatch"}

TypesAgree ==
    \/ args.pattern1.pattern_type = args.pattern2.pattern_type
    \/ {args.pattern1.pattern_type, args.pattern2.pattern_type} = {"solid_fill", "hatching"}

StrokeOver(k) == StrokeDistance > (k * args.color_tolerance) * (k * args.color_tolerance)

AngleOver(k) == Hatched /\ AngleDistance > k * args.angle_tolerance

FillOver == FillDistance > args.color_tolerance * args.color_tolerance

SpacingOver ==
    LET s1 == args.pattern1.hatching_spacing
        s2 == args.pattern2.hatching_spacing
    IN  /\ IsSet(s1) /\ IsSet(s2)
        /\ LET a == s1[1] * s2[2]
               b == s2[1] * s1[2]
               larger == IF a > b THEN a ELSE b
               diff == IF a > b THEN a - b ELSE b - a
           IN  diff * 100 > args.spacing_tolerance * larger

Halvings == (IF StrokeOver(1) THEN 1 ELSE 0) + (IF AngleOver(1) THEN 1 ELSE 0)

Dampings == (IF FillOver THEN 1 ELSE 0) + (IF SpacingOver THEN 1 ELSE 0)

RuleConfidence == (10000 * (5 ^ Halvings) * (7 ^ Dampings)) \div (10 ^ (Halvings + Dampings))

\* C21: patterns_match computes the five-step rule: (False, 0) when the types
\* differ and are not {solid_fill, hatching}, when the stroke colours are more
\* than twice the tolerance apart, or when the first pattern is hatched and the
\* angles are more than twice the tolerance apart; otherwise the confidence is
\* 1.0 halved for a stroke or an angle over tolerance and times 0.7 for a fill
\* or a spacing over tolerance, and the match is accepted iff it is above 0.3,
\* so never when both stroke colour and angle are over tolerance
C21_FiveStepRule ==
    Returned1 =>
        /\ result[1] = IF ~TypesAgree \/ StrokeOver(2) \/ AngleOver(2)
                       THEN <<FALSE, 0>>
                       ELSE <<RuleConfidence > 3000, RuleConfidence>>
        /\ (StrokeOver(1) /\ AngleOver(1)) => ~result[1][1]

\* both halvings met without an early return: the confidence drops to 0.25
C21_Witness ==
    /\ Returned1
    /\ TypesAgree /\ StrokeOver(1) /\ AngleOver(1)
    /\ ~StrokeOver(2) /\ ~AngleOver(2)
    /\ result[1] = <<FALSE, 2500>>

\* a mixed {solid_fill, hatching} pair accepted with a damped confidence
C21_MixedPairAccepted ==
    /\ Returned1
    /\ args.pattern1.pattern_type = "solid_fill"
    /\ args.pattern2.pattern_type = "hatching"
    /\ result[1] = <<TRUE, 3500>>

\* C22: patterns_match is symmetric in its two patterns: swapping them gives
\* the same verdict and the same confidence, also for a {solid_fill, hatching}
\* pair of which one side carries a hatching angle
C22_Symmetric ==
    Returned1 =>
        result[1] = patterns_match(args.pattern2, args.pattern1, args.color_tolerance,
                                   args.angle_tolerance, args.spacing_tolerance)

\* the part of C22 that holds: pairs of one pattern type are treated alike
\* in both directions
SymmetricWithinType ==
    (Returned1 /\ args.pattern1.pattern_type = args.pattern2.pattern_type) =>
        result[1] = patterns_match(args.pattern2, args.pattern1, args.color_tolerance,
                                   args.angle_tolerance, args.spacing_tolerance)


(***************************************************************************)
(* merge_adjacent_regions: the confidence of a merged region, and what is  *)
(* merged (SpecMerge)                                                      *)
(***************************************************************************)

\* the sum of the confidences of the input regions ks
RECURSIVE SumConfidences(_)
SumConfidences(ks) ==
    IF ks = {} THEN <<0, 1>>
    ELSE LET k == CHOOSE k \in ks : TRUE
         IN  AddRatio(args[k].confidence, SumConfidences(ks \ {k}))

\* (c1 + ... + ck) / k
AverageConfidence(ks) ==
    LET total == SumConfidences(ks) IN Ratio(total[1], total[2] * Cardinality(ks))

\* the input regions f assigns to the output region o
GroupOf(f, o) == {k \in DOMAIN args : f[k] = o}

\* C23: the confidence of a region produced by merge_adjacent_regions is the
\* average of the confidences of all the regions merged into it,
\* (c1 + ... + ck) / k, whatever the order in which they were folded
C23_ConfidenceIsAverage ==
    Returned1 =>
        \E f \in [DOMAIN args -> DOMAIN result[1]] :
            /\ Folding(f)
            /\ \A o \in DOMAIN result[1] :
                  result[1][o].confidence = AverageConfidence(GroupOf(f, o))

\* the part of C23 that holds: a region merged from at most two fragments
\* carries the mean of their confidences
PairConfidenceIsMean ==
    Returned1 =>
        \E f \in [DOMAIN args -> DOMAIN result[1]] :
            /\ Folding(f)
            /\ \A o \in DOMAIN result[1] :
                  Cardinality(GroupOf(f, o)) =< 2 =>
                      result[1][o].confidence = AverageConfidence(GroupOf(f, o))

\* the smallest box around the input regions ks
BoxAround(ks) ==
    <<SetMin({args[k].bbox[1] : k \in ks}), SetMin({args[k].bbox[2] : k \in ks}),
      SetMax({args[k].bbox[3] : k \in ks}), SetMax({args[k].bbox[4] : k \in ks})>>

\* the boxes a and b are within the merge distance on both axes, measured
\* between their nearest edges in either direction
NearBoxes(a, b) ==
    /\ Gap(a[1], a[3], b[1], b[3]) =< MergeDistance
    /\ Gap(a[2], a[4], b[2], b[4]) =< MergeDistance

\* C24: merge_adjacent_regions merges only regions that are adjacent on both
\* axes: every region folded into a merged region lies within merge_distance,
\* horizontally and vertically and in either direction, of the box of the
\* other regions merged with it; regions further apart are never merged
C24_MergedOnlyWhenAdjacent ==
    Returned1 =>
        \E f \in [DOMAIN args -> DOMAIN result[1]] :
            /\ Folding(f)
            /\ \A o \in DOMAIN result[1] : \A k \in GroupOf(f, o) :
                  GroupOf(f, o) # {k} =>
                      NearBoxes(args[k].bbox, BoxAround(GroupOf(f, o) \ {k}))

\* the part of C24 that holds: a region is never merged across a vertical
\* distance
MergedWithinVerticalGap ==
    Returned1 =>
        \E f \in [DOMAIN args -> DOMAIN result[1]] :
            /\ Folding(f)
            /\ \A o \in DOMAIN result[1] : \A k \in GroupOf(f, o) :
                  GroupOf(f, o) # {k} =>
                      LET box == BoxAround(GroupOf(f, o) \ {k})
                      IN  Gap(args[k].bbox[2], args[k].bbox[4], box[2], box[4]) =< MergeDistance


(***************************************************************************)
(* calculate_region_length                                                 *)
(*   a point is <<x, y>>, a rectangle <<x0, y0, x1, y1>>; an item of a     *)
(*   drawing is its command and its operands, ("m", p), ("l", p),          *)
(*   ("l", p1, p2) or ("re", rect); the points lie on the corners of a     *)
(*   30 x 40 box, so every segment has a whole length                      *)
(***************************************************************************)
MaxItems == 3

NoPoint == <<>>

Item(cmd, operands) == [cmd |-> cmd, operands |-> operands]

\* math.sqrt of a perfect square
Sqrt(n) == CHOOSE r \in 0..100 : r * r = n

SegmentLength(p1, p2) ==
    Sqrt((p2[1] - p1[1]) * (p2[1] - p1[1]) + (p2[2] - p1[2]) * (p2[2] - p1[2]))

NoCoordinates == [x_coords |-> {}, y_coords |-> {}, total_length |-> 0]

\* the two end points of a line item, <<>> when the item is passed over
LineEnds(item, current_pos) ==
    IF Len(item.operands) >= 2 THEN <<item.operands[1], item.operands[2]>>
    ELSE IF current_pos # NoPoint THEN <<current_pos, item.operands[1]>>
         ELSE <<>>

\* the loop over the items: the coordinates seen and the length summed
RECURSIVE WalkItems(_, _, _)
WalkItems(items, current_pos, seen) ==
    IF items = <<>> THEN seen
    ELSE LET item == items[1]
             rest == Tail(items)
         IN  IF Len(item.operands) < 1 THEN WalkItems(rest, current_pos, seen)
             ELSE IF item.cmd = "m"
             THEN LET p == item.operands[1]
                  IN  WalkItems(rest, p,
                                [seen EXCEPT !.x_coords = @ \cup {p[1]},
                                             !.y_coords = @ \cup {p[2]}])
             ELSE IF item.cmd = "l"
             THEN LET ends == LineEnds(item, current_pos)
                  IN  IF ends = <<>> THEN WalkItems(rest, current_pos, seen)
                      ELSE WalkItems(rest, ends[2],
                                     [x_coords |-> seen.x_coords \cup {ends[1][1], ends[2][1]},
                                      y_coords |-> seen.y_coords \cup {ends[1][2], ends[2][2]},
                                      total_length |-> seen.total_length
                                                       + SegmentLength(ends[1], ends[2])])
             ELSE IF item.cmd = "re"
             THEN LET rect == item.operands[1]
                  IN  WalkItems(rest, current_pos,
                                [x_coords |-> seen.x_coords \cup {rect[1], rect[3]},
                                 y_coords |-> seen.y_coords \cup {rect[2], rect[4]},
                                 total_length |-> seen.total_length
                                                  + 2 * (Abs(rect[3] - rect[1])
                                                         + Abs(rect[4] - rect[2]))])
             ELSE WalkItems(rest, current_pos, seen)

SpanFirst(seen) == Max(SetMax(seen.x_coords) - SetMin(seen.x_coords),
                       SetMax(seen.y_coords) - SetMin(seen.y_coords))

\* the length as a fraction
calculate_region_length(items) ==
    LET seen == WalkItems(items, NoPoint, NoCoordinates)
    IN  IF seen.x_coords # {} /\ seen.y_coords # {}
        THEN <<SpanFirst(seen), 1>>
        ELSE Ratio(seen.total_length, 2)

Corners == {<<10, 10>>, <<40, 10>>, <<40, 50>>, <<10, 50>>}

DrawingItems ==
    { Item("m", <<p>>) : p \in Corners } \cup { Item("l", <<p>>) : p \in Corners }
    \cup { Item("l", <<<<10, 10>>, <<40, 50>>>>), Item("l", <<<<40, 10>>, <<40, 50>>>>),
           Item("re", <<<<10, 10, 40, 20>>>>), Item("h", <<>>) }

InitLength == \E items \in SeqsUpTo(DrawingItems, MaxItems) : Called(items)

CallCalculateRegionLength == Return(calculate_region_length(args))

NextLength == CallCalculateRegionLength

SpecLength == InitLength /\ [][NextLength]_vars

\* the segments drawn by the move and line items of the call, in order
RECURSIVE SegmentsOf(_, _)
SegmentsOf(items, pos) ==
    IF items = <<>> THEN <<>>
    ELSE LET item == items[1]
         IN  IF item.cmd = "m" THEN SegmentsOf(Tail(items), item.operands[1])
             ELSE IF item.cmd = "l" /\ Len(item.operands) = 2
             THEN <<item.operands>> \o SegmentsOf(Tail(items), item.operands[2])
             ELSE IF item.cmd = "l" /\ pos # NoPoint
             THEN <<<<pos, item.operands[1]>>>> \o SegmentsOf(Tail(items), item.operands[1])
             ELSE SegmentsOf(Tail(items), pos)

Segments == SegmentsOf(args, NoPoint)

\* one connected path of move and line items
Polyline ==
    /\ \A k \in DOMAIN args : args[k].cmd \in {"m", "l"}
    /\ Segments # <<>>
    /\ \A k \in 1..(Len(Segments) - 1) : Segments[k][2] = Segments[k + 1][1]

\* it does not come back to where it started
OpenPolyline == Polyline /\ Segments[Len(Segments)][2] # Segments[1][1]

RECURSIVE SumOfLengths(_)
SumOfLengths(segments) ==
    IF segments = <<>> THEN 0
    ELSE SegmentLength(segments[1][1], segments[1][2]) + SumOfLengths(Tail(segments))

\* the longer side of the box around everything the drawing touches
LongerSide ==
    LET xs == UNION {{s[1][1], s[2][1]} : s \in {Segments[k] : k \in DOMAIN Segments}}
              \cup UNION {{args[k].operands[1][1], args[k].operands[1][3]} :
                            k \in {j \in DOMAIN args : args[j].cmd = "re"}}
              \cup {args[k].operands[1][1] : k \in {j \in DOMAIN args : args[j].cmd = "m"}}
        ys == UNION {{s[1][2], s[2][2]} : s \in {Segments[k] : k \in DOMAIN Segments}}
              \cup UNION {{args[k].operands[1][2], args[k].operands[1][4]} :
                            k \in {j \in DOMAIN args : args[j].cmd = "re"}}
              \cup {args[k].operands[1][2] : k \in {j \in DOMAIN args : args[j].cmd = "m"}}
    IN  Max(SetMax(xs) - SetMin(xs), SetMax(ys) - SetMin(ys))

Drawn == \E k \in DOMAIN args : args[k].cmd \in {"m", "re"} \/ Segments # <<>>

\* C25: calculate_region_length returns the sum of the lengths of the
\* segments of an open polyline, and the longer side of the bounding box of a
\* closed or rectangle-like shape
C25_LengthByShapeKind ==
    (Returned1 /\ Drawn) =>
        result[1] = IF OpenPolyline THEN <<SumOfLengths(Segments), 1>> ELSE <<LongerSide, 1>>

\* what holds instead: the longer side of the bounding box whatever the shape
LengthIsLongerSide == (Returned1 /\ Drawn) => result[1] = <<LongerSide, 1>>

\* an open polyline whose length is not its longer side
BentPolylineMeasured ==
    /\ Returned1
    /\ args = <<Item("m", <<<<10, 10>>>>), Item("l", <<<<40, 10>>>>), Item("l", <<<<40, 50>>>>)>>
    /\ result[1] = <<40, 1>>


(***************************************************************************)
(* Pattern analysis of a drawing: analyze_pattern (plankopf_parser.py) and *)
(* analyze_drawing_pattern (material_pattern_detector.py)                  *)
(*   - an angle is a fraction of degrees in lowest terms; math.atan2 is    *)
(*     taken to the nearest whole degree                                   *)
(*   - math.sin and math.cos are taken in thousandths, by Bhaskara's       *)
(*     rational approximation 4x(180 - x) / (40500 - x(180 - x))           *)
(***************************************************************************)

\* 1000 * sin of the angle a = <<n, d>> degrees, 0 <= a <= 180
HalfTurnSine(a) ==
    LET p == a[1] * (180 * a[2] - a[1])
    IN  (4000 * p) \div (40500 * a[2] * a[2] - p)

\* 1000 * math.sin(math.radians(a)) for -180 <= a <= 360
Sine(a) ==
    IF a[1] < 0 THEN -HalfTurnSine(<<-a[1], a[2]>>)
    ELSE IF a[1] > 180 * a[2] THEN -HalfTurnSine(<<a[1] - 180 * a[2], a[2]>>)
         ELSE HalfTurnSine(a)

\* 1000 * math.cos(math.radians(a)) for -180 <= a <= 180
Cosine(a) == Sine(<<a[1] + 90 * a[2], a[2]>>)

\* how far the direction of deg degrees is from that of the vector (dx, dy)
Aside(dx, dy, deg) == Abs(dx * Sine(<<deg, 1>>) - dy * Cosine(<<deg, 1>>))

Along(dx, dy, deg) == dx * Cosine(<<deg, 1>>) + dy * Sine(<<deg, 1>>)

\* the whole degree nearest to the direction of the vector (dx, dy): within
\* 45 degrees of it, and no further aside than its two neighbours
NearestDegree(dx, dy) ==
    CHOOSE deg \in -179..180 :
        /\ Along(dx, dy, deg) >= Aside(dx, dy, deg)
        /\ Aside(dx, dy, deg) =< Aside(dx, dy, deg - 1)
        /\ Aside(dx, dy, deg) =< Aside(dx, dy, deg + 1)

\* the points a stroke of the drawings below starts or ends at
StrokePoints ==
    {<<10, 10>>, <<50, 10>>, <<10, 20>>, <<50, 20>>, <<50, 19>>, <<10, 30>>, <<50, 39>>,
     <<10, 50>>, <<20, 10>>, <<20, 50>>}

\* the directions from one of these points to another, each with its angle
Directions == {<<q[1] - p[1], q[2] - p[2]>> : p \in StrokePoints, q \in StrokePoints}

DegreesOf == [v \in Directions \ {<<0, 0>>} |-> NearestDegree(v[1], v[2])]

\* math.degrees(math.atan2(dy, dx)), for a vector other than (0, 0)
atan2_degrees(dy, dx) == DegreesOf[<<dx, dy>>]

Drawing(items, color, fill) == [items |-> items, color |-> color, fill |-> fill]

AnalysedPattern(type, stroke, fill, angle, spacing, secondary, line_count) ==
    [pattern_type |-> type, stroke_color |-> stroke, fill_color |-> fill,
     hatching_angle |-> angle, hatching_spacing |-> spacing,
     secondary_angle |-> secondary, line_count |-> line_count]

\* a line is <<p1, p2>>; a line without extent has no angle
ZeroLength(line) == line[1] = line[2]

\* math.degrees(math.atan2(dy, dx)) % 180
LineAngle(line) == atan2_degrees(line[2][2] - line[1][2], line[2][1] - line[1][1]) % 180

RECURSIVE LineAngles(_)
LineAngles(lines) ==
    IF lines = <<>> THEN <<>>
    ELSE IF ZeroLength(lines[1]) THEN LineAngles(Tail(lines))
         ELSE <<LineAngle(lines[1])>> \o LineAngles(Tail(lines))

RECURSIVE InsertAscending(_, _)
InsertAscending(s, v) ==
    IF s = <<>> THEN <<v>>
    ELSE IF v < s[1] THEN <<v>> \o s
         ELSE <<s[1]>> \o InsertAscending(Tail(s), v)

\* sorted(values)
RECURSIVE Ascending(_)
Ascending(values) ==
    IF values = <<>> THEN <<>>
    ELSE InsertAscending(Ascending(Tail(values)), values[1])

RECURSIVE Sum(_)
Sum(values) == IF values = <<>> THEN 0 ELSE values[1] + Sum(Tail(values))

Cluster(members) == [center |-> Ratio(Sum(members), Len(members)), count |-> Len(members)]

\* the loop over the sorted values: a value within the tolerance of the last
\* member joins the current cluster, any other closes it
RECURSIVE ClusterLoop(_, _, _, _)
ClusterLoop(clusters, current, rest, tolerance) ==
    IF rest = <<>> THEN Append(clusters, Cluster(current))
    ELSE IF rest[1] - current[Len(current)] =< tolerance
         THEN ClusterLoop(clusters, Append(current, rest[1]), Tail(rest), tolerance)
         ELSE ClusterLoop(Append(clusters, Cluster(current)), <<rest[1]>>, Tail(rest),
                          tolerance)

LargeEnough(c) == c.count >= 2

_cluster_angles(angles, tolerance) ==
    IF angles = <<>> THEN <<>>
    ELSE LET sorted_angles == Ascending(angles)
         IN  SelectSeq(ClusterLoop(<<>>, <<sorted_angles[1]>>, Tail(sorted_angles), tolerance),
                       LargeEnough)

_cluster_values(values, tolerance) ==
    IF values = <<>> THEN <<>>
    ELSE LET sorted_vals == Ascending(values)
         IN  SelectSeq(ClusterLoop(<<>>, <<sorted_vals[1]>>, Tail(sorted_vals), tolerance),
                       LargeEnough)

\* sorted(clusters, key=count, reverse=True) of two clusters: a stable sort
ByCount(clusters) ==
    IF clusters[2].count > clusters[1].count THEN <<clusters[2], clusters[1]>> ELSE clusters

\* abs(mx * sin - my * cos) of the midpoint of a line, in two-thousandths
MidpointOffset(line, angle) ==
    Abs((line[1][1] + line[2][1]) * Sine(angle) - (line[1][2] + line[2][2]) * Cosine(angle))

\* the gaps between neighbours of the sorted distances that exceed 0.1
RECURSIVE WideGaps(_)
WideGaps(distances) ==
    IF Len(distances) < 2 THEN <<>>
    ELSE (IF distances[2] - distances[1] > 200 THEN <<distances[2] - distances[1]>> ELSE <<>>)
         \o WideGaps(Tail(distances))

_estimate_line_spacing(lines, dominant_angle) ==
    IF Len(lines) < 2 THEN NoFloat
    ELSE LET distances == Ascending([k \in DOMAIN lines |->
                                        MidpointOffset(lines[k], dominant_angle)])
             spacings == WideGaps(distances)
         IN  IF spacings # <<>> THEN Ratio(Sum(spacings), Len(spacings) * 2000) ELSE NoFloat

\* the result for a drawing with fewer than two lines
Unhatched(stroke_color, fill_color) ==
    IF fill_color # NoColor
    THEN AnalysedPattern("solid_fill", stroke_color, fill_color, NoFloat, NoFloat, NoFloat, 0)
    ELSE AnalysedPattern("none", stroke_color, NoColor, NoFloat, NoFloat, NoFloat, 0)

\* the line items of the legend learner: ("l", p1, p2) only
RECURSIVE LegendLines(_)
LegendLines(items) ==
    IF items = <<>> THEN <<>>
    ELSE IF Len(items[1].operands) >= 2 /\ items[1].cmd = "l"
         THEN <<<<items[1].operands[1], items[1].operands[2]>>>> \o LegendLines(Tail(items))
         ELSE LegendLines(Tail(items))

analyze_pattern(drawing) ==
    LET stroke_color == drawing.color
        fill_color == drawing.fill
        lines == LegendLines(drawing.items)
        angles == LineAngles(lines)
        angle_clusters == _cluster_angles(angles, 10)
    IN  IF Len(lines) < 2 THEN Unhatched(stroke_color, fill_color)
        ELSE IF angles = <<>>
        THEN AnalysedPattern("none", stroke_color, NoColor, NoFloat, NoFloat, NoFloat, 0)
        ELSE IF Len(angle_clusters) = 1
        THEN AnalysedPattern("hatching", stroke_color, fill_color, angle_clusters[1].center,
                             _estimate_line_spacing(lines, angle_clusters[1].center),
                             NoFloat, Len(lines))
        ELSE IF Len(angle_clusters) = 2
        THEN AnalysedPattern("crosshatch", stroke_color, fill_color,
                             ByCount(angle_clusters)[1].center, NoFloat,
                             ByCount(angle_clusters)[2].center, Len(lines))
        ELSE AnalysedPattern("hatching", stroke_color, fill_color, NoFloat, NoFloat, NoFloat,
                             Len(lines))

\* the line items of the page scan: a line runs from the current position
\* whenever there is one
RECURSIVE DrawnLines(_, _)
DrawnLines(items, current_pos) ==
    IF items = <<>> THEN <<>>
    ELSE LET item == items[1]
             rest == Tail(items)
         IN  IF Len(item.operands) < 1 THEN DrawnLines(rest, current_pos)
             ELSE IF item.cmd = "m" THEN DrawnLines(rest, item.operands[1])
             ELSE IF item.cmd = "l" /\ current_pos # NoPoint
             THEN <<<<current_pos, item.operands[1]>>>> \o DrawnLines(rest, item.operands[1])
             ELSE IF item.cmd = "l" /\ Len(item.operands) >= 2
             THEN <<<<item.operands[1], item.operands[2]>>>>
                  \o DrawnLines(rest, item.operands[2])
             ELSE DrawnLines(rest, current_pos)

analyze_drawing_pattern(drawing) ==
    LET stroke_color == drawing.color
        fill_color == drawing.fill
        lines == DrawnLines(drawing.items, NoPoint)
        angles == LineAngles(lines)
        angle_clusters == _cluster_values(angles, 15)
    IN  IF Len(lines) < 2 THEN Unhatched(stroke_color, fill_color)
        ELSE IF angles = <<>>
        THEN AnalysedPattern("none", stroke_color, NoColor, NoFloat, NoFloat, NoFloat, 0)
        ELSE IF Len(angle_clusters) = 1
        THEN AnalysedPattern("hatching", stroke_color, fill_color, angle_clusters[1].center,
                             NoFloat, NoFloat, Len(lines))
        ELSE IF Len(angle_clusters) = 2
        THEN AnalysedPattern("crosshatch", stroke_color, fill_color,
                             ByCount(angle_clusters)[1].center, NoFloat,
                             ByCount(angle_clusters)[2].center, Len(lines))
        ELSE AnalysedPattern("hatching", stroke_color, fill_color, NoFloat, NoFloat, NoFloat,
                             Len(lines))

\* strokes of a legend swatch: level, rising at 13 degrees, upright, a stroke
\* drawn backwards, a stroke without extent, and the move and line-to forms
HatchItems ==
    { Item("l", <<<<10, 10>>, <<50, 10>>>>), Item("l", <<<<10, 20>>, <<50, 20>>>>),
      Item("l", <<<<10, 10>>, <<50, 19>>>>), Item("l", <<<<10, 30>>, <<50, 39>>>>),
      Item("l", <<<<10, 10>>, <<10, 50>>>>), Item("l", <<<<20, 10>>, <<20, 50>>>>),
      Item("l", <<<<50, 10>>, <<10, 10>>>>), Item("l", <<<<10, 10>>, <<10, 10>>>>),
      Item("m", <<<<10, 10>>>>), Item("l", <<<<50, 10>>>>) }

Analyses == {"analyze_pattern", "analyze_drawing_pattern"}

InitAnalyse ==
    \E items \in SeqsUpTo(HatchItems, MaxItems), fill \in {NoColor, White}, f \in Analyses :
        Called([analysis |-> f, drawing |-> Drawing(items, Red, fill)])

CallAnalyzePattern ==
    /\ args.analysis = "analyze_pattern"
    /\ Return(analyze_pattern(args.drawing))

CallAnalyzeDrawingPattern ==
    /\ args.analysis = "analyze_drawing_pattern"
    /\ Return(analyze_drawing_pattern(args.drawing))

NextAnalyse == CallAnalyzePattern \/ CallAnalyzeDrawingPattern

SpecAnalyse == InitAnalyse /\ [][NextAnalyse]_vars


Learnt == Returned1 /\ args.analysis = "analyze_pattern"

\* the angles of the segments of the shape, normalised to [0, 180)
SegmentAngles == LineAngles(LegendLines(args.drawing.items))

\* the angles a =< b fall into one cluster: no gap of more than 10 degrees
\* separates neighbouring angles between them
Chained(a, b) ==
    \A k \in DOMAIN SegmentAngles :
        (a =< SegmentAngles[k] /\ SegmentAngles[k] < b) =>
            \E j \in DOMAIN SegmentAngles :
                SegmentAngles[k] < SegmentAngles[j] /\ SegmentAngles[j] =< SegmentAngles[k] + 10

MembersWith(k) ==
    {j \in DOMAIN SegmentAngles :
        Chained(Min(SegmentAngles[j], SegmentAngles[k]), Max(SegmentAngles[j], SegmentAngles[k]))}

\* the clusters that count: those of two members or more
AngleClusters ==
    {c \in {MembersWith(k) : k \in DOMAIN SegmentAngles} : Cardinality(c) >= 2}

MeanAngle(c) == Ratio(SumOver(SegmentAngles, c), Cardinality(c))

\* C26: analyze_pattern classifies a legend shape by the number of angle
\* clusters of its segments: none and a fill colour gives solid_fill, one gives
\* hatching at the mean angle of the cluster, two give crosshatch with the
\* angle of the larger cluster first and that of the other second, and any
\* other case gives hatching with no angle
C26_ClassifiedByClusters ==
    Learnt =>
        LET n == Cardinality(AngleClusters)
            pattern == result[1]
        IN  IF n = 0 /\ args.drawing.fill # NoColor
            THEN pattern.pattern_type = "solid_fill"
            ELSE IF n = 1
            THEN /\ pattern.pattern_type = "hatching"
                 /\ \A c \in AngleClusters : pattern.hatching_angle = MeanAngle(c)
            ELSE IF n = 2
            THEN /\ pattern.pattern_type = "crosshatch"
                 /\ \E c \in AngleClusters, d \in AngleClusters :
                       /\ c # d
                       /\ Cardinality(c) >= Cardinality(d)
                       /\ pattern.hatching_angle = MeanAngle(c)
                       /\ pattern.secondary_angle = MeanAngle(d)
            ELSE /\ pattern.pattern_type = "hatching"
                 /\ pattern.hatching_angle = NoFloat

\* the part of C26 that holds: a shape with at least one cluster, or with a
\* fill colour and fewer than two segments, is classified as the claim says
ClassifiedWhenClustered ==
    (Learnt /\ (AngleClusters # {} \/ (args.drawing.fill # NoColor
                                       /\ Len(LegendLines(args.drawing.items)) < 2)))
    => C26_ClassifiedByClusters

\* a filled shape of two strokes that form no cluster comes out as hatching
FilledShapeLearntAsHatching ==
    /\ Learnt
    /\ args.drawing.fill = White
    /\ AngleClusters = {}
    /\ result[1].pattern_type = "hatching"
    /\ result[1].hatching_angle = NoFloat

\* C27: the page scan derives the descriptor the legend learner derives: for
\* every drawing, analyze_drawing_pattern and analyze_pattern return the same
\* pattern_type, hatching_angle, secondary_angle and hatching_spacing
C27_SameDescriptor ==
    Returned1 =>
        LET other == IF args.analysis = "analyze_pattern"
                     THEN analyze_drawing_pattern(args.drawing)
                     ELSE analyze_pattern(args.drawing)
        IN  /\ result[1].pattern_type = other.pattern_type
            /\ result[1].hatching_angle = other.hatching_angle
            /\ result[1].secondary_angle = other.secondary_angle
            /\ result[1].hatching_spacing = other.hatching_spacing

\* the part of C27 that holds: drawings of fewer than two line items are
\* described alike
SameDescriptorWithoutLines ==
    (Returned1 /\ Cardinality({k \in DOMAIN args.drawing.items :
                                  args.drawing.items[k].cmd = "l"}) < 2)
    => C27_SameDescriptor

\* two level strokes 10 apart: hatching at 0 degrees with spacing 10 for the
\* legend learner
LevelHatchLearnt ==
    /\ Learnt
    /\ args.drawing.items = <<Item("l", <<<<10, 10>>, <<50, 10>>>>),
                              Item("l", <<<<10, 20>>, <<50, 20>>>>)>>
    /\ result[1].pattern_type = "hatching"
    /\ result[1].hatching_angle = <<0, 1>>
    /\ result[1].hatching_spacing = <<10, 1>>

\* the same strokes for the page scan: hatching with no angle
LevelHatchScanned ==
    /\ Returned1 /\ args.analysis = "analyze_drawing_pattern"
    /\ args.drawing.items = <<Item("l", <<<<10, 10>>, <<50, 10>>>>),
                              Item("l", <<<<10, 20>>, <<50, 20>>>>)>>
    /\ result[1].pattern_type = "hatching"
    /\ result[1].hatching_angle = NoFloat


(***************************************************************************)
(* detect_door_rectangles over the segments of a page                      *)
(*   the segments are those extract_line_segments_from_page hands over, at *)
(*   least 10 px long; lengths are carried as their squares                *)
(***************************************************************************)
MaxSegments == 3

\* the loop over seg2 in segments[i+1:] for one seg1
RECURSIVE PairsWith(_, _, _, _, _)
PairsWith(seg1, others, pixels_per_meter, min_door_width_m, max_door_width_m) ==
    IF others = <<>> THEN <<>>
    ELSE LET pair == RectangleOfPair(seg1, others[1], pixels_per_meter,
                                     min_door_width_m, max_door_width_m)
         IN  (IF pair.geometry = NoGeometry THEN <<>> ELSE <<pair.geometry>>)
             \o PairsWith(seg1, Tail(others), pixels_per_meter,
                          min_door_width_m, max_door_width_m)

\* the loop over seg1 in segments
RECURSIVE AllPairs(_, _, _, _)
AllPairs(segments, pixels_per_meter, min_door_width_m, max_door_width_m) ==
    IF segments = <<>> THEN <<>>
    ELSE PairsWith(segments[1], Tail(segments), pixels_per_meter,
                   min_door_width_m, max_door_width_m)
         \o AllPairs(Tail(segments), pixels_per_meter, min_door_width_m, max_door_width_m)

\* pixels_per_meter is a whole number of pixels here
detect_door_rectangles(segments, scale_context_, min_door_width_m, max_door_width_m) ==
    IF ~scale_context_.present \/ ~Truthy(scale_context_.pixels_per_meter) THEN <<>>
    ELSE AllPairs(segments, scale_context_.pixels_per_meter[1],
                  min_door_width_m, max_door_width_m)

\* level, upright and diagonal strokes, one of them drawn backwards
PageSegments ==
    { <<0, 0, 30, 0>>, <<0, 6, 30, 6>>, <<0, 14, 30, 14>>, <<30, 15, 0, 15>>,
      <<0, 15, 40, 15>>, <<0, 0, 0, 30>>, <<16, 0, 16, 40>>, <<5, 5, 25, 25>>,
      <<15, 5, 35, 25>> }

RectangleScales == {NoScale, Scale(<<10, 1>>), Scale(<<20, 1>>), Scale(<<0, 1>>)}

InitRectangles ==
    \E segments \in SeqsUpTo(PageSegments, MaxSegments), s \in RectangleScales,
       m \in MinWidths :
        Called([segments |-> segments, scale_context |-> s,
                min_door_width_m |-> m, max_door_width_m |-> MaxWidth])

CallDetectDoorRectangles ==
    Return(detect_door_rectangles(args.segments, args.scale_context,
                                  args.min_door_width_m, args.max_door_width_m))

NextRectangles == CallDetectDoorRectangles

SpecRectangles == InitRectangles /\ [][NextRectangles]_vars

HasScale == args.scale_context.present /\ args.scale_context.pixels_per_meter[1] > 0

\* the separation of the pair in metres lies within the door widths, bounds
\* included: min^2 * ppm^2 <= separation^2 <= max^2 * ppm^2
SeparationFits(j, k) ==
    LET separation == PerpendicularSquared(args.segments[j], args.segments[k])
        ppm == args.scale_context.pixels_per_meter[1]
        low == args.min_door_width_m
        high == args.max_door_width_m
    IN  /\ low[1] * low[1] * ppm * ppm * separation[2] =< separation[1] * low[2] * low[2]
        /\ separation[1] * high[2] * high[2] =< high[1] * high[1] * ppm * ppm * separation[2]

\* the pairs of distinct segments of the page that make a door
QualifyingPairs ==
    {p \in (DOMAIN args.segments) \X (DOMAIN args.segments) :
        /\ p[1] < p[2]
        /\ Abs(angle_degrees(args.segments[p[1]]) - angle_degrees(args.segments[p[2]])) =< 10
        /\ SeparationFits(p[1], p[2])}

\* the geometry g is the rectangle of the pair p
RectangleOf(g, p) ==
    LET seg1 == args.segments[p[1]]
        seg2 == args.segments[p[2]]
    IN  /\ g.opening_type = "rectangle"
        /\ g.parallel_lines = <<seg1, seg2>>
        /\ g.center4 = <<midpoint2(seg1)[1] + midpoint2(seg2)[1],
                         midpoint2(seg1)[2] + midpoint2(seg2)[2]>>
        /\ g.width_px = PerpendicularSquared(seg1, seg2)
        /\ g.height_px = Max(length_px(seg1), length_px(seg2))
        /\ g.confidence = 60

NothingWithoutScale ==
    /\ Returned1
    /\ ~HasScale
    /\ Len(args.segments) = 2
    /\ args.segments[1] = <<0, 0, 30, 0>>
    /\ args.segments[2] = <<0, 14, 30, 14>>
    /\ result[1] = <<>>


(***************************************************************************)
(* split_compound_door_labels (door_label_detection.py)                    *)
(*   the x-coordinates of a split bbox are fractions in lowest terms       *)
(***************************************************************************)
MaxSplitLabels == 2

\* \w: what stands on the word side of a \b
WordChars == Letters \cup Digits \cup {"x", "_"}

\* \b between position p - 1 and position p
WordBoundary(s, p) ==
    LET before == p > 1 /\ s[p - 1] \in WordChars
        after == p =< Len(s) /\ s[p] \in WordChars
    IN  before # after

\* [A-Z]+ from position k on: the last position of the run, k - 1 if none
RECURSIVE LetterRunEnd(_, _)
LetterRunEnd(s, k) == IF k =< Len(s) /\ s[k] \in Letters THEN LetterRunEnd(s, k + 1) ELSE k - 1

IsChar(s, k, c) == k =< Len(s) /\ s[k] = c

\* the last position of the match of
\*   \b([A-Z]+\.\d{2}\.\d+\.\d{3}(?:-\d+)?)\b
\* that starts at position p, 0 when there is none
DoorNumberEnd(s, p) ==
    LET q == LetterRunEnd(s, p)
        d == DigitRunEnd(s, q + 5)
        e == d + 4
        f == DigitRunEnd(s, e + 2)
    IN  IF /\ WordBoundary(s, p)
           /\ q >= p
           /\ IsChar(s, q + 1, ".")
           /\ DigitRunEnd(s, q + 2) = q + 3
           /\ IsChar(s, q + 4, ".")
           /\ d >= q + 5
           /\ IsChar(s, d + 1, ".")
           /\ DigitRunEnd(s, d + 2) >= e
        THEN IF IsChar(s, e + 1, "-") /\ f >= e + 2 /\ WordBoundary(s, f + 1) THEN f
             ELSE IF WordBoundary(s, e + 1) THEN e
             ELSE 0
        ELSE 0

\* door_number_pattern.findall(text), from position p on
RECURSIVE FindDoorNumbers(_, _)
FindDoorNumbers(s, p) ==
    IF p > Len(s) THEN <<>>
    ELSE LET e == DoorNumberEnd(s, p)
         IN  IF e > 0 THEN <<SubSeq(s, p, e)>> \o FindDoorNumbers(s, e + 1)
             ELSE FindDoorNumbers(s, p + 1)

\* the whole bbox for every split
WholeBox(bbox, idx, count) == <<<<bbox[1], 1>>, bbox[2], <<bbox[3], 1>>, bbox[4]>>

\* split_bbox of the door number idx (from 0) of count
SplitBox(bbox, idx, count) ==
    IF count > 1
    THEN <<Ratio(bbox[1] * count + idx * (bbox[3] - bbox[1]), count), bbox[2],
           Ratio(bbox[1] * count + (idx + 1) * (bbox[3] - bbox[1]), count), bbox[4]>>
    ELSE <<<<bbox[1], 1>>, bbox[2], <<bbox[3], 1>>, bbox[4]>>

\* the split label of the door number idx (from 0); confidence in thousandths
SplitLabel(label, door_numbers, idx) ==
    [label_text |-> door_numbers[idx + 1],
     bbox |-> SplitBox(label.bbox, idx, Len(door_numbers)),
     confidence |-> IF Len(door_numbers) > 1 THEN label.confidence * 9
                    ELSE label.confidence * 10,
     pattern_type |-> "room_door",
     width_m |-> label.width_m, height_m |-> label.height_m,
     door_type |-> label.door_type, fire_rating |-> label.fire_rating,
     original_text |-> label.label_text,
     split_index |-> IF Len(door_numbers) > 1 THEN idx ELSE 0,
     total_splits |-> Len(door_numbers)]

SplitsOf(label) ==
    LET door_numbers == FindDoorNumbers(label.label_text, 1)
    IN  [k \in 1..Len(door_numbers) |-> SplitLabel(label, door_numbers, k - 1)]

RECURSIVE split_compound_door_labels(_)
split_compound_door_labels(ls) ==
    IF ls = <<>> THEN <<>>
    ELSE SplitsOf(ls[1]) \o split_compound_door_labels(Tail(ls))

Blank == <<" ">>

\* label texts with one, two, three and no door number, with a door number
\* that runs into a letter or a digit, and with one cut short by a dash
CompoundTexts ==
    { TextB1, TextB1 \o Blank \o TextA1, TextB1 \o Blank \o TextA1 \o Blank \o TextB
                                           \o Blank \o TextT30,
      TextT30, TextB1Dim, <<"x">> \o TextB, TextB \o <<"-">>, TextB \o <<"4">>,
      TextB1 \o <<"x">> }

BoxWide == <<0, 0, 100, 10>>

\* a label that names a fire rating carries it
CompoundLabels ==
    { Label(t, BoxWide, 90, "room_door", NoFloat, NoFloat,
            IF Len(t) > Len(TextB1Dim) THEN "T30" ELSE NoRating) : t \in CompoundTexts }
    \cup { Label(TextB1 \o Blank \o TextA1, <<10, 20, 70, 30>>, 80, "dimension",
                 <<9, 10>>, <<21, 10>>, NoRating) }

InitSplit == \E ls \in SeqsUpTo(CompoundLabels, MaxSplitLabels) : Called(ls)

CallSplitCompoundDoorLabels == Return(split_compound_door_labels(args))

NextSplit == CallSplitCompoundDoorLabels

SpecSplit == InitSplit /\ [][NextSplit]_vars

\* the text s[p..e] is a door identifier standing on its own: letters, the
\* three dotted groups of two, some and three digits, and maybe -N, with
\* nothing of a word before or behind it
IdentifierAt(s, p, e) ==
    /\ 1 =< p /\ p =< e /\ e =< Len(s)
    /\ (p = 1 \/ s[p - 1] \notin WordChars)
    /\ (e = Len(s) \/ s[e + 1] \notin WordChars)
    /\ \E q \in p..e :
          /\ \A k \in p..q : s[k] \in Letters
          /\ \E b \in NumberBodyEnds(s, q + 1) :
                \/ b = e
                \/ b + 2 =< e /\ s[b + 1] = "-" /\ AllDigits(s, b + 2, e)

\* the door identifiers of a text, in text order: each the longest at its
\* place, none inside another
RECURSIVE IdentifiersFrom(_, _)
IdentifiersFrom(s, p) ==
    IF p > Len(s) THEN <<>>
    ELSE LET ends == {e \in p..Len(s) : IdentifierAt(s, p, e)}
         IN  IF ends = {} THEN IdentifiersFrom(s, p + 1)
             ELSE <<SubSeq(s, p, SetMax(ends))>> \o IdentifiersFrom(s, SetMax(ends) + 1)

Identifiers(k) == IdentifiersFrom(args[k].label_text, 1)

\* the number of output labels that come before those of the input label k
RECURSIVE SplitsBefore(_)
SplitsBefore(k) == IF k = 1 THEN 0 ELSE SplitsBefore(k - 1) + Len(Identifiers(k - 1))

\* the n output labels of the input label k are one per identifier, with the
\* attributes of the label
OnePerIdentifier(k) ==
    \A n \in 1..Len(Identifiers(k)) :
        LET out == result[1][SplitsBefore(k) + n]
        IN  /\ out.label_text = Identifiers(k)[n]
            /\ out.fire_rating = args[k].fire_rating
            /\ out.width_m = args[k].width_m
            /\ out.height_m = args[k].height_m
            /\ out.door_type = args[k].door_type

Less(a, b) == a[1] * b[2] < b[1] * a[2]

\* the bboxes of the outputs of k tile the bbox of k from left to right
TilesBox(k) ==
    LET count == Len(Identifiers(k))
        box(n) == result[1][SplitsBefore(k) + n].bbox
    IN  count > 1 =>
           /\ \A n \in 1..count :
                 /\ box(n)[2] = args[k].bbox[2] /\ box(n)[4] = args[k].bbox[4]
                 /\ Less(box(n)[1], box(n)[3])
                 /\ AddRatio(box(n)[3], <<-box(n)[1][1], box(n)[1][2]>>)
                      = Ratio(args[k].bbox[3] - args[k].bbox[1], count)
           /\ box(1)[1] = <<args[k].bbox[1], 1>>
           /\ box(count)[3] = <<args[k].bbox[3], 1>>
           /\ \A n \in 1..(count - 1) : box(n)[3] = box(n + 1)[1]

\* C29: split_compound_door_labels turns a label with n >= 1 door identifiers
\* into n labels, one per identifier in text order, each with the identifier
\* alone as label_text and the fire_rating, width_m, height_m and door_type of
\* the compound label; for n > 1 the n bboxes have equal width, share the
\* y-extent, do not overlap and together cover the original bbox from left to
\* right; a label without a door identifier produces no label
C29_OneLabelPerIdentifier ==
    Returned1 =>
        /\ Len(result[1]) = SplitsBefore(Len(args) + 1)
        /\ \A k \in DOMAIN args : OnePerIdentifier(k) /\ TilesBox(k)

\* a label of three identifiers split in three, behind a label that is dropped
C29_Witness ==
    /\ Returned1
    /\ Len(args) = 2
    /\ Len(Identifiers(1)) = 0
    /\ Len(Identifiers(2)) = 3
    /\ Len(result[1]) = 3
    /\ result[1][2].bbox = <<<<100, 3>>, 0, <<200, 3>>, 10>>
    /\ result[1][2].label_text = TextA1
    /\ result[1][2].fire_rating = "T30"



(***************************************************************************)
(* Geometries through _extract_doors_from_page                             *)
(***************************************************************************)
\* the final records of geometry g
FinalRecordsOfGeometry(g) == {k \in FinalIds : final_doors[k].geometry = g}

\* geometry g would pass the confidence filter as a geometry_only record
PassesAsGeometryOnly(g) == GeometryOnlyConfidence(geometries[g]) >= min_confidence

\* the label that claimed geometry g in the matching pass, 0 when none did
ClaimingLabel(g) ==
    IF \E k \in 1..Len(candidates) : candidates[k].geometry = g /\ candidates[k].label # 0
    THEN LET k == CHOOSE k \in 1..Len(candidates) :
                     candidates[k].geometry = g /\ candidates[k].label # 0
         IN candidates[k].label
    ELSE 0

\* C30: when the page pipeline is done, every geometry g with
\* 0.7 * g.confidence >= min_confidence is the geometry of some record of the
\* final door list, whatever label claimed it in the matching pass
C30_NoGeometryLost ==
    pc = "done" =>
        \A g \in GeometryIds :
            PassesAsGeometryOnly(g) => FinalRecordsOfGeometry(g) # {}

\* a geometry that no label claimed and that passes the filter is kept
UnclaimedGeometryKept ==
    pc = "done" =>
        \A g \in GeometryIds :
            (PassesAsGeometryOnly(g) /\ ClaimingLabel(g) = 0)
                => FinalRecordsOfGeometry(g) # {}

\* a geometry claimed by a bare fire-rating label is in no final record
LostToFireRatingLabel ==
    /\ pc = "done"
    /\ \E g \in GeometryIds :
          /\ PassesAsGeometryOnly(g)
          /\ ClaimingLabel(g) # 0
          /\ labels0[ClaimingLabel(g)].pattern_type = "fire_rating"
          /\ FinalRecordsOfGeometry(g) = {}

\* a geometry claimed by a room code without instance suffix is in no final record
LostToRoomCode ==
    /\ pc = "done"
    /\ \E g \in GeometryIds :
          /\ PassesAsGeometryOnly(g)
          /\ ClaimingLabel(g) # 0
          /\ labels0[ClaimingLabel(g)].label_text = TextB
          /\ FinalRecordsOfGeometry(g) = {}

\* a geometry claimed by the second of two labels with one door number is in no
\* final record although its record passed the confidence filter
LostToDuplicate ==
    /\ pc = "done"
    /\ \E g \in GeometryIds :
          /\ PassesAsGeometryOnly(g)
          /\ ClaimingLabel(g) # 0
          /\ labels0[ClaimingLabel(g)].label_text = TextB1
          /\ \E k \in 1..Len(doors) : doors[k].geometry = g
          /\ FinalRecordsOfGeometry(g) = {}

====
